---- MODULE Spec2Model ----
(***************************************************************************)
(* Model of the media cache of the streaming gateway                       *)
(* (bot/helper/media_cache.py) and of the range arithmetic of the stream   *)
(* routes (bot/server/stream_routes.py).                                   *)
(*                                                                         *)
(* Sizes are bytes.  Time is whole hours.  Scores are stored multiplied by *)
(* ScoreScale, so that hours / RECENCY_DECAY_HOURS * 10 is an integer.     *)
(***************************************************************************)
EXTENDS Integers, Sequences, FiniteSets, TLC

\* ------------------------------------------------------------------------
\* Bounds of the model
\* ------------------------------------------------------------------------
\* number of _download_file tasks that can be alive at once
MaxTasks == 2
\* number of sessions in the pool, len(multi_clients)
NumClients == 2
\* the clock stops advancing here (hours)
MaxClock == 24
\* cache hits on one entry are recorded until access_count reaches this
MaxHits == 2
\* number of rows whose unlink raises in one eviction pass
MaxEvictFailures == 1
\* cache budget, Telegram.CACHE_MAX_SIZE_GB * 1024^3 in the source
MaxSizeBytes == 150

\* ------------------------------------------------------------------------
\* The items of the remote store
\* ------------------------------------------------------------------------
\* cache keys chat_id:msg_id:hash of the items of the store
Keys == {"A", "B", "C", "E"}
\* the items that are requested while the process runs; C is an item
\* that earlier runs may have left in the cache
Requested == {"A", "B", "E"}

\* file_size of the descriptor of each item
FileSize(k) == IF k = "E" THEN 40 ELSE 100

\* mime_type and file_name of the descriptor of each item
MimeType(k) == CASE k = "A" -> "video/x-matroska" [] k = "B" -> "video/mp4"
                 [] k = "C" -> "application/octet-stream" [] OTHER -> "application/pdf"
Suffix(k) == CASE k = "A" -> ".mkv" [] k = "B" -> "" [] k = "C" -> ".mp4" [] OTHER -> ".pdf"

CACHEABLE_EXTENSIONS ==
    {".mp4", ".mkv", ".webm", ".avi", ".mov", ".flv", ".wmv",
     ".mp3", ".m4a", ".flac", ".wav", ".ogg", ".aac"}

CACHEABLE_MIMETYPES ==
    {"video/mp4", "video/x-matroska", "video/webm", "video/avi",
     "video/quicktime", "video/x-flv", "video/x-ms-wmv",
     "audio/mpeg", "audio/mp4", "audio/flac", "audio/wav",
     "audio/ogg", "audio/aac"}

\* _is_cacheable(mime_type, file_name), the file name given by its suffix
IsCacheable(mime_type, suffix) ==
    mime_type \in CACHEABLE_MIMETYPES \/ suffix \in CACHEABLE_EXTENSIONS

Tasks == 1..MaxTasks
Clients == 0..(NumClients - 1)

Max(a, b) == IF a >= b THEN a ELSE b
Min(a, b) == IF a <= b THEN a ELSE b

\* ------------------------------------------------------------------------
\* State
\* ------------------------------------------------------------------------
VARIABLES
    index,        \* the media_cache collection: cache_key -> document
    files,        \* the cache directory: cache_key (its path) -> size on disk
    downloading,  \* MediaCache.downloading
    task,         \* the _download_file tasks
    now,          \* datetime.utcnow(), in hours
    precache_tasks, \* the items whose smart_pre_cache task has been created
                  \* and has not run yet
    trigger_tasks,  \* the items whose _trigger_pre_download task has been
                  \* created and has not run yet
    pool,         \* one selection of sessions: the pool size, work_loads
                  \* and the indexes chosen
    calc,         \* one evaluation of _calculate_score: its arguments, the
                  \* time it is evaluated at and its result
    commit,       \* commits of one row: the key, the size, the functions
                  \* that committed it and the index after the first commit
    evict,        \* one call of _ensure_space: its argument, the state
                  \* before it and the rows whose eviction raised
    req,          \* a stream request: descriptor size and Range header
    resp,         \* the response to it
    call,         \* one call of cleanup or of get_cached_path: the function,
                  \* its key, the state before it and what it returned
    predict,      \* one run of the pattern matching of smart_pre_cache: the
                  \* file name, the pattern that matched and the query built
    naming,       \* one derivation of a cache path: the descriptor and the
                  \* extension each function derives
    lock,         \* the holder of MediaCache._download_lock
    catalog,      \* the rows of db.files, by item
    handler       \* one request handler that is suspended in an await

vars == <<index, files, downloading, task, now, precache_tasks, trigger_tasks,
          pool, calc, commit, evict, req, resp, call, predict, naming, lock,
          catalog, handler>>
spawned == <<precache_tasks, trigger_tasks>>
\* the state that only the specifications after the main one change
probes == <<call, predict, naming, lock, catalog, handler>>
harness == <<evict, pool, calc, commit, probes>>
cacheVars == <<index, files, downloading, task, now, spawned, harness>>

EmptyMap == [x \in {} |-> 0]
NoEvict == [phase |-> "none", needed_bytes |-> 0, index |-> EmptyMap,
            files |-> EmptyMap, failed |-> {}]
NoCommit == [cache_key |-> "A", actual_size |-> 0, by |-> <<>>, first |-> EmptyMap,
             first_at |-> 0, at |-> 0]
NoCalc == [phase |-> "none", access_count |-> 0, last_access |-> 0, at |-> 0,
           score |-> 0]
NoPool == [phase |-> "none", n |-> 0, work_loads |-> EmptyMap, index |-> 0,
           bg_index |-> 0]
NoCall == [fn |-> "none", key |-> "A", index |-> EmptyMap, files |-> EmptyMap,
           at |-> 0, result |-> FALSE]
NoPredict == [phase |-> "none"]
NoNaming == [phase |-> "none"]
NoLock == [holder |-> "none", pc |-> "none", key |-> "A", client_index |-> 0,
           admitted |-> FALSE]
NoHandler == [route |-> "none", pc |-> "none", key |-> "A", admitted |-> 0,
              opened |-> "none"]
\* the probes at rest: every item has its row in the catalog
NoProbes ==
    /\ call = NoCall
    /\ predict = NoPredict
    /\ naming = NoNaming
    /\ lock = NoLock
    /\ catalog = Keys
    /\ handler = NoHandler
Remove(f, k) == [x \in (DOMAIN f) \ {k} |-> f[x]]
Put(f, k, v) == [x \in (DOMAIN f) \cup {k} |-> IF x = k THEN v ELSE f[x]]

NoTask == [pc |-> "none", key |-> "A", attempt |-> 0, client |-> 0]
\* a task that has ended: only the way it ended is kept
Ended(how) == [pc |-> how, key |-> "A", attempt |-> 0, client |-> 0]

\* ------------------------------------------------------------------------
\* Byte ranges
\* ------------------------------------------------------------------------
\* chunk_size, 1024 * 1024 in the source, scaled down
ChunkSize == 4
\* largest descriptor size and largest number in a Range header
MaxFileSize == 9

\* a request carries the descriptor size and a Range header: kind "none"
\* (no header), "open" (bytes=a-) or "closed" (bytes=a-b)
NoReq == [file_size |-> 0, kind |-> "none", a |-> 0, b |-> 0]
\* a response: path is its X-Cache header, source is where its body was
\* read from
NoResp == [path |-> "none", status |-> 0, content_range |-> <<0, 0, 0>>,
           content_length |-> 0, source |-> "none", body |-> <<>>]

Requests ==
    [file_size : 1..MaxFileSize, kind : {"closed"},
     a : 0..(MaxFileSize + 1), b : 0..(MaxFileSize + 1)]
    \cup [file_size : 1..MaxFileSize, kind : {"open"},
          a : 0..(MaxFileSize + 1), b : {0}]
    \cup [file_size : 1..MaxFileSize, kind : {"none"}, a : {0}, b : {0}]

\* from_bytes and until_bytes as both handlers parse them
FromBytes(r) == IF r.kind = "none" THEN 0 ELSE r.a
UntilBytes(r) == IF r.kind = "closed" THEN r.b ELSE r.file_size - 1

\* the 416 test of both handlers
RangeNotSatisfiable(from_bytes, until_bytes, file_size) ==
    (until_bytes > file_size) \/ (from_bytes < 0) \/ (until_bytes < from_bytes)

\* math.ceil(n / d) and math.floor(n / d) for n >= 0
CeilDiv(n, d) == (n + d - 1) \div d
FloorDiv(n, d) == n \div d

\* the arguments media_streamer passes to yield_file
Offset(from_bytes) == from_bytes - (from_bytes % ChunkSize)
FirstPartCut(from_bytes) == from_bytes - Offset(from_bytes)
LastPartCut(until_bytes) == (until_bytes % ChunkSize) + 1
PartCount(from_bytes, until_bytes) ==
    CeilDiv(until_bytes, ChunkSize) - FloorDiv(Offset(from_bytes), ChunkSize)

\* the bytes of a file are named by their positions 0 .. file_size - 1
Bytes(lo, hi) == IF hi < lo THEN <<>> ELSE [i \in 1..(hi - lo + 1) |-> lo + i - 1]

\* seq[a:b] of Python for 0 <= a
Slice(seq, a, b) ==
    IF a >= Min(b, Len(seq)) THEN <<>> ELSE SubSeq(seq, a + 1, Min(b, Len(seq)))

\* chunk number part (from 1) the remote store delivers from offset
RemoteChunk(file_size, offset, part) ==
    Bytes(offset + (part - 1) * ChunkSize,
          Min(file_size, offset + part * ChunkSize) - 1)

\* one buffer of the chunked range reader
EmitPart(file_size, offset, first_part_cut, last_part_cut, part_count, part) ==
    LET chunk == RemoteChunk(file_size, offset, part)
    IN  IF part_count = 1 THEN Slice(chunk, first_part_cut, last_part_cut)
        ELSE IF part = 1 THEN Slice(chunk, first_part_cut, Len(chunk))
        ELSE IF part = part_count THEN Slice(chunk, 0, last_part_cut)
        ELSE chunk

\* the concatenation of the buffers of parts part .. part_count
RECURSIVE YieldFile(_, _, _, _, _, _)
YieldFile(file_size, offset, first_part_cut, last_part_cut, part_count, part) ==
    IF part > part_count THEN <<>>
    ELSE EmitPart(file_size, offset, first_part_cut, last_part_cut, part_count, part)
         \o YieldFile(file_size, offset, first_part_cut, last_part_cut,
                      part_count, part + 1)

\* the response of media_streamer on the remote path
RemoteResponse(r) ==
    LET from_bytes == FromBytes(r)
        parsed_until == UntilBytes(r)
        file_size == r.file_size
    IN  IF RangeNotSatisfiable(from_bytes, parsed_until, file_size)
        THEN [path |-> "MISS", status |-> 416, content_range |-> <<-1, -1, file_size>>,
              content_length |-> 0, source |-> "none", body |-> <<>>]
        ELSE LET until_bytes == Min(parsed_until, file_size - 1)
             IN  [path |-> "MISS",
                  status |-> IF r.kind = "none" THEN 200 ELSE 206,
                  content_range |-> <<from_bytes, until_bytes, file_size>>,
                  content_length |-> until_bytes - from_bytes + 1,
                  source |-> "remote",
                  body |-> YieldFile(file_size, Offset(from_bytes),
                                     FirstPartCut(from_bytes),
                                     LastPartCut(until_bytes),
                                     PartCount(from_bytes, until_bytes), 1)]

\* file_sender of stream_from_cache over a cached file of disk_size bytes
FileSender(disk_size, from_bytes, req_length) ==
    IF req_length <= 0 THEN <<>>
    ELSE Bytes(from_bytes, Min(from_bytes + req_length, disk_size) - 1)

\* the response of stream_from_cache for a cached file of disk_size bytes
CacheResponse(r, disk_size) ==
    LET from_bytes == FromBytes(r)
        parsed_until == UntilBytes(r)
        file_size == r.file_size
    IN  IF RangeNotSatisfiable(from_bytes, parsed_until, file_size)
        THEN [path |-> "HIT", status |-> 416, content_range |-> <<-1, -1, file_size>>,
              content_length |-> 0, source |-> "none", body |-> <<>>]
        ELSE LET until_bytes == Min(parsed_until, file_size - 1)
                 req_length == until_bytes - from_bytes + 1
             IN  [path |-> "HIT",
                  status |-> IF r.kind = "none" THEN 200 ELSE 206,
                  content_range |-> <<from_bytes, until_bytes, file_size>>,
                  content_length |-> req_length,
                  source |-> "disk",
                  body |-> FileSender(disk_size, from_bytes, req_length)]

\* ------------------------------------------------------------------------
\* Score
\* ------------------------------------------------------------------------
K_FACTOR == 10
RECENCY_DECAY_HOURS == 24
ScoreScale == RECENCY_DECAY_HOURS \div 2

\* the score without the floor of the recency bonus
CalculateScoreNoFloor(access_count, last_access, at) ==
    access_count * K_FACTOR * ScoreScale
    + 100 * ScoreScale
    - ((at - last_access) * 10 * ScoreScale) \div RECENCY_DECAY_HOURS

\* _calculate_score, times ScoreScale; at is utcnow() when it is evaluated
CalculateScore(access_count, last_access, at) ==
    LET hours_since_access == at - last_access
        recency_bonus == Max(0, 100 * ScoreScale
                             - (hours_since_access * 10 * ScoreScale) \div RECENCY_DECAY_HOURS)
    IN  access_count * K_FACTOR * ScoreScale + recency_bonus

\* ------------------------------------------------------------------------
\* Lookup
\* ------------------------------------------------------------------------
\* a lookup that leaves the row of a missing file in the index
GetCachedPathIndexKeep(idx, fls, k) == idx

\* get_cached_path: the index after the lookup (a row whose file is missing
\* is deleted)
GetCachedPathIndex(idx, fls, k) ==
    IF k \in DOMAIN idx /\ k \notin DOMAIN fls THEN Remove(idx, k) ELSE idx

\* is_cached: the result of the lookup
IsCached(idx, fls, k) == k \in DOMAIN idx /\ k \in DOMAIN fls

\* ------------------------------------------------------------------------
\* Eviction
\* ------------------------------------------------------------------------
RECURSIVE SumSizes(_, _)
SumSizes(idx, S) ==
    IF S = {} THEN 0
    ELSE LET k == CHOOSE x \in S : TRUE
         IN  idx[k].file_size + SumSizes(idx, S \ {k})

\* get_cache_size
GetCacheSize(idx) == SumSizes(idx, DOMAIN idx)

\* the orders in which find().sort("score", ASCENDING) can return the rows
RECURSIVE Perms(_)
Perms(S) ==
    IF S = {} THEN {<<>>}
    ELSE UNION {{<<k>> \o p : p \in Perms(S \ {k})} : k \in S}

\* the cursor without the sort
Unsorted(idx) == Perms(DOMAIN idx)

SortedByScore(idx) ==
    {p \in Perms(DOMAIN idx) :
        \A i \in 1..(Len(p) - 1) : idx[p[i]].score <= idx[p[i + 1]].score}

\* a loop that deletes the row before the file: a raising unlink leaves the
\* file without its row
RECURSIVE EvictLoopRowFirst(_, _, _, _, _, _, _, _)
EvictLoopRowFirst(docs, i, current_size, target_size, failing, failed, idx, fls) ==
    IF i > Len(docs) \/ current_size <= target_size
    THEN [index |-> idx, files |-> fls, failed |-> failed]
    ELSE LET k == docs[i]
         IN  IF k \in failing /\ k \in DOMAIN fls
             THEN EvictLoopRowFirst(docs, i + 1, current_size, target_size, failing,
                                    failed \cup {k}, Remove(idx, k), fls)
             ELSE EvictLoopRowFirst(docs, i + 1, current_size - idx[k].file_size,
                                    target_size, failing, failed,
                                    Remove(idx, k), Remove(fls, k))

\* the for loop of _ensure_space over the cursor docs, from position i;
\* failing are the rows whose unlink raises (the except branch of the loop),
\* failed the rows for which it has raised so far
RECURSIVE EvictLoop(_, _, _, _, _, _, _, _)
EvictLoop(docs, i, current_size, target_size, failing, failed, idx, fls) ==
    IF i > Len(docs) \/ current_size <= target_size
    THEN [index |-> idx, files |-> fls, failed |-> failed]
    ELSE LET k == docs[i]
         IN  IF k \in failing /\ k \in DOMAIN fls
             THEN EvictLoop(docs, i + 1, current_size, target_size, failing,
                            failed \cup {k}, idx, fls)
             ELSE EvictLoop(docs, i + 1, current_size - idx[k].file_size,
                            target_size, failing, failed,
                            Remove(idx, k), Remove(fls, k))

\* the cursor of one call: none when the early return is taken
Cursors(needed_bytes, idx) ==
    IF GetCacheSize(idx) <= MaxSizeBytes - needed_bytes THEN {<<>>}
    ELSE SortedByScore(idx)

\* the rows whose unlink raises in one call, at most MaxEvictFailures
FailingSets(needed_bytes, idx, fls) ==
    IF GetCacheSize(idx) <= MaxSizeBytes - needed_bytes THEN {{}}
    ELSE {S \in SUBSET ((DOMAIN idx) \cap (DOMAIN fls)) :
             Cardinality(S) <= MaxEvictFailures}

\* _ensure_space(needed_bytes) with the cursor returning docs
EnsureSpace(needed_bytes, docs, failing, idx, fls) ==
    LET current_size == GetCacheSize(idx)
        target_size == MaxSizeBytes - needed_bytes
    IN  IF current_size <= target_size
        THEN [index |-> idx, files |-> fls, failed |-> {}]
        ELSE EvictLoop(docs, 1, current_size, target_size, failing, {}, idx, fls)

\* ------------------------------------------------------------------------
\* Initial state: an empty cache directory and an empty collection
\* ------------------------------------------------------------------------
Init ==
    /\ index = EmptyMap
    /\ files = EmptyMap
    /\ downloading = {}
    /\ task = [t \in Tasks |-> NoTask]
    /\ now = 0
    /\ precache_tasks = {}
    /\ trigger_tasks = {}
    /\ pool = NoPool
    /\ calc = NoCalc
    /\ commit = NoCommit
    /\ evict = NoEvict
    /\ req = NoReq
    /\ resp = NoResp
    /\ NoProbes

\* the task slots that hold no live task
FreeSlots == {t \in Tasks : task[t].pc \in {"none", "committed", "failed", "cancelled"}}
Live(t) == task[t].pc \in {"locate", "stream", "sleep"}

\* ------------------------------------------------------------------------
\* Admission
\* ------------------------------------------------------------------------
\* the admission check without the test of the downloading set
AdmitNoSetCheck(k, idx, fls, dl) ==
    /\ ~IsCached(idx, fls, k)
    /\ IsCacheable(MimeType(k), Suffix(k))

\* the check of start_background_download under _download_lock
Admit(k, idx, fls, dl) ==
    /\ k \notin dl
    /\ ~IsCached(idx, fls, k)
    /\ IsCacheable(MimeType(k), Suffix(k))

\* start_background_download(key k, ..., client_index): the state after the
\* call, given the index after any lookup the caller made before it
StartBackgroundDownload(k, client_index, idx) ==
    IF Admit(k, idx, files, downloading)
    THEN /\ FreeSlots # {}
         /\ LET t == CHOOSE x \in FreeSlots : \A y \in FreeSlots : x <= y
            IN  task' = [task EXCEPT ![t] =
                            [pc |-> "locate", key |-> k, attempt |-> 0,
                             client |-> client_index]]
         /\ downloading' = downloading \cup {k}
         /\ index' = GetCachedPathIndex(idx, files, k)
    ELSE /\ task' = task
         /\ downloading' = downloading
         /\ index' = IF k \in downloading THEN idx
                     ELSE GetCachedPathIndex(idx, files, k)

\* ------------------------------------------------------------------------
\* The populator task _download_file
\* ------------------------------------------------------------------------
\* the document the populator commits
CommitDoc(actual_size, at) ==
    [file_size |-> actual_size, access_count |-> 1, last_access |-> at,
     score |-> CalculateScore(1, at, at)]

\* an upsert that leaves access_count to "$inc"
UpsertInc(idx, k, doc) ==
    Put(idx, k, IF k \in DOMAIN idx
                THEN [doc EXCEPT !.access_count = idx[k].access_count + 1]
                ELSE doc)

\* update_one({"cache_key": k}, {"$set": {...}}, upsert=True)
Upsert(idx, k, doc) == Put(idx, k, doc)

\* the completeness check with a tolerance of 5%
CompleteLoose(actual_size, file_size) == actual_size * 100 >= file_size * 95

\* actual_size >= file_size * 0.99
Complete(actual_size, file_size) == actual_size * 100 >= file_size * 99

\* the byte counts a full stream of the item can deliver: all of it, the
\* least count that passes the completeness check, and one byte less
Delivered(file_size) ==
    {file_size, file_size - file_size \div 100, file_size - file_size \div 100 - 1}

\* the byte counts an interrupted stream can have written
PartialWritten(file_size) == {file_size \div 2}

\* (index + 1) % len(multi_clients)
PickOther(current, n) == (current + 1) % n

\* the rotation of both except branches, and bg_index of a session
NextClient(client) == PickOther(client, NumClients)

\* the retry loop without its cap: the same attempt again
NextAttemptNoCap(t) ==
    /\ task' = [task EXCEPT ![t].pc = "locate"]
    /\ downloading' = downloading

\* the next iteration of "for attempt in range(max_retries)", or the end of
\* the loop: "All download attempts failed", downloading.discard
NextAttempt(t) ==
    IF task[t].attempt + 1 < NumClients
    THEN /\ task' = [task EXCEPT ![t].pc = "locate", ![t].attempt = @ + 1]
         /\ downloading' = downloading
    ELSE /\ task' = [task EXCEPT ![t] = Ended("failed")]
         /\ downloading' = downloading \ {task[t].key}

\* an attempt that opens the cache file for appending: what an earlier
\* attempt wrote stays in it
LocateOkAppend(t) ==
    /\ task[t].pc = "locate"
    /\ \E docs \in Cursors(FileSize(task[t].key), index),
          failing \in FailingSets(FileSize(task[t].key), index, files) :
         LET k == task[t].key
             r == EnsureSpace(FileSize(k), docs, failing, index, files)
         IN  /\ index' = r.index
             /\ files' = IF k \in DOMAIN r.files THEN r.files ELSE Put(r.files, k, 0)
    /\ task' = [task EXCEPT ![t].pc = "stream"]
    /\ UNCHANGED <<downloading, now, spawned, harness, req, resp>>

\* get_file_properties returns: _ensure_space, then open(file_path, 'wb'),
\* then the first chunk is awaited
LocateOk(t) ==
    /\ task[t].pc = "locate"
    /\ \E docs \in Cursors(FileSize(task[t].key), index),
          failing \in FailingSets(FileSize(task[t].key), index, files) :
         LET k == task[t].key
             r == EnsureSpace(FileSize(k), docs, failing, index, files)
         IN  /\ index' = r.index
             /\ files' = Put(r.files, k, 0)
    /\ task' = [task EXCEPT ![t].pc = "stream"]
    /\ UNCHANGED <<downloading, now, spawned, harness, req, resp>>

\* get_file_properties raises; flood is "FLOOD_WAIT" in the message
LocateFail(t, flood) ==
    /\ task[t].pc = "locate"
    /\ files' = IF flood THEN files ELSE Remove(files, task[t].key)
    /\ task' = [task EXCEPT ![t].pc = "sleep", ![t].client = NextClient(@)]
    /\ UNCHANGED <<index, downloading, now, spawned, harness, req, resp>>

\* yield_file is exhausted after written bytes: the size check, then the
\* commit or the removal of the incomplete file
StreamEnd(t, written) ==
    /\ task[t].pc = "stream"
    /\ written \in Delivered(FileSize(task[t].key))
    /\ LET k == task[t].key
           actual_size == written
       IN  IF Complete(actual_size, FileSize(k))
           THEN /\ index' = Upsert(index, k, CommitDoc(actual_size, now))
                /\ files' = Put(files, k, written)
                /\ downloading' = downloading \ {k}
                /\ task' = [task EXCEPT ![t] = Ended("committed")]
           ELSE /\ index' = index
                /\ files' = Remove(files, k)
                /\ NextAttempt(t)
    /\ UNCHANGED <<now, spawned, harness, req, resp>>

\* yield_file raises after written bytes
StreamFail(t, flood, written) ==
    /\ task[t].pc = "stream"
    /\ written \in PartialWritten(FileSize(task[t].key))
    /\ files' = IF flood THEN Put(files, task[t].key, written)
                ELSE Remove(files, task[t].key)
    /\ task' = [task EXCEPT ![t].pc = "sleep", ![t].client = NextClient(@)]
    /\ UNCHANGED <<index, downloading, now, spawned, harness, req, resp>>

\* asyncio.sleep(1) returns: continue
Wake(t) ==
    /\ task[t].pc = "sleep"
    /\ NextAttempt(t)
    /\ UNCHANGED <<index, files, now, spawned, harness, req, resp>>

\* the task is cancelled at the await it is suspended in: CancelledError is
\* a BaseException, "except Exception" does not catch it and the task ends
Cancel(t, written) ==
    /\ Live(t)
    /\ written \in PartialWritten(FileSize(task[t].key))
    /\ files' = IF task[t].pc = "stream" THEN Put(files, task[t].key, written)
                ELSE files
    /\ task' = [task EXCEPT ![t] = Ended("cancelled")]
    /\ UNCHANGED <<index, downloading, now, spawned, harness, req, resp>>

\* ------------------------------------------------------------------------
\* Requests, predictor, cleanup
\* ------------------------------------------------------------------------
\* record_access with find_one_and_update returning the document as it was
\* before the update
RecordAccessBefore(idx, k, at) ==
    IF k \in DOMAIN idx
    THEN [idx EXCEPT ![k] =
            [@ EXCEPT !.access_count = idx[k].access_count + 1,
                      !.last_access = at,
                      !.score = CalculateScore(idx[k].access_count, at, at)]]
    ELSE idx

\* record_access: find_one_and_update returns the updated document
\* (return_document=True), whose access_count the new score is computed from
RecordAccess(idx, k, at) ==
    IF k \in DOMAIN idx
    THEN [idx EXCEPT ![k] =
            [@ EXCEPT !.access_count = idx[k].access_count + 1,
                      !.last_access = at,
                      !.score = CalculateScore(idx[k].access_count + 1, at, at)]]
    ELSE idx

\* the Range headers sent for an item of the store
KeyRequests(k) ==
    {[file_size |-> FileSize(k), kind |-> "closed", a |-> 0, b |-> FileSize(k) - 1],
     [file_size |-> FileSize(k), kind |-> "closed", a |-> 0, b |-> FileSize(k) + 1]}

\* file_id.unique_id of the descriptor of each item, as its characters
UniqueId(k) ==
    CASE k = "A" -> <<"A", "g", "A", "D", "x", "1", "Q", "Z">>
      [] k = "B" -> <<"A", "g", "A", "D", "x", "2", "Q", "Z">>
      [] k = "C" -> <<"A", "g", "A", "D", "x", "3", "Q", "Z">>
      [] OTHER -> <<"A", "g", "A", "D", "y", "4", "Q", "Z">>

\* unique_id[:6]
HashOf(unique_id) == Slice(unique_id, 0, 6)

\* the hash parameters sent for an item: its own and the hash of another
\* item
Hashes(k) ==
    {HashOf(UniqueId(k)), HashOf(UniqueId(IF k = "A" THEN "B" ELSE "A"))}

\* the handler without the hash test
HashNotTested(unique_id, secure_hash) == FALSE

\* the test that raises InvalidHash
InvalidHash(unique_id, secure_hash) == HashOf(unique_id) # secure_hash

\* web.HTTPForbidden raised by stream_handler
Forbidden == [path |-> "none", status |-> 403, content_range |-> <<0, 0, 0>>,
              content_length |-> 0, source |-> "none", body |-> <<>>]

\* the request as the model records it
Request(k, secure_hash, r) ==
    [key |-> k, secure_hash |-> secure_hash, file_size |-> r.file_size,
     kind |-> r.kind, a |-> r.a, b |-> r.b]

\* stream_from_cache: the 416 test, then record_access (which creates a
\* smart_pre_cache task for the file_name of the row)
StreamFromCache(k, r) ==
    /\ IF RangeNotSatisfiable(FromBytes(r), UntilBytes(r), r.file_size)
       THEN UNCHANGED <<index, precache_tasks>>
       ELSE /\ index[k].access_count < MaxHits
            /\ index' = RecordAccess(index, k, now)
            /\ precache_tasks' = precache_tasks \cup {k}
    /\ UNCHANGED <<downloading, task>>

\* the miss path of media_streamer on session i: admission of a populator
\* on another session and a smart_pre_cache task
StreamFromRemote(k, i, r) ==
    /\ IF IsCacheable(MimeType(k), Suffix(k)) /\ k \notin downloading
       THEN /\ StartBackgroundDownload(k, NextClient(i),
                                       GetCachedPathIndex(index, files, k))
            /\ precache_tasks' = precache_tasks \cup {k}
       ELSE /\ index' = GetCachedPathIndex(index, files, k)
            /\ UNCHANGED <<downloading, task, precache_tasks>>

\* what stream_handler and media_streamer do to the cache, after
\* get_file_properties returned the descriptor on the least loaded session
\* i: the hash test, the cache lookup, then the hit path or the miss path
MediaStreamerState(k, i, secure_hash, r) ==
    IF InvalidHash(UniqueId(k), secure_hash)
    THEN UNCHANGED <<index, downloading, task, precache_tasks>>
    ELSE IF IsCached(index, files, k)
         THEN StreamFromCache(k, r)
         ELSE StreamFromRemote(k, i, r)

\* the handler labelling every response as read from the remote store
ResponseRemote(k, secure_hash, r) ==
    IF InvalidHash(UniqueId(k), secure_hash) THEN Forbidden
    ELSE RemoteResponse(r)

\* the response they return
MediaStreamerResponse(k, secure_hash, r) ==
    IF InvalidHash(UniqueId(k), secure_hash) THEN Forbidden
    ELSE IF IsCached(index, files, k) THEN CacheResponse(r, files[k])
    ELSE RemoteResponse(r)

\* a request is handled; its response leaves the process
MediaStreamer(k, i, secure_hash, r) ==
    /\ r \in KeyRequests(k)
    /\ MediaStreamerState(k, i, secure_hash, r)
    /\ UNCHANGED <<files, now, trigger_tasks, harness, req, resp>>

\* a request is handled; the request and its response are kept
Serve(k, i, secure_hash, r) ==
    /\ r \in KeyRequests(k)
    /\ MediaStreamerState(k, i, secure_hash, r)
    /\ req' = Request(k, secure_hash, r)
    /\ resp' = MediaStreamerResponse(k, secure_hash, r)
    /\ UNCHANGED <<files, now, trigger_tasks, harness>>

\* the next episode the catalog holds for an item
NextEpisode(k) == CASE k = "A" -> "B" [] k = "B" -> "C" [] OTHER -> "none"
\* the items db.files.find_one can return to the predictor
Predicted == {NextEpisode(k) : k \in Requested} \cap Requested

\* the smart_pre_cache task created for item k runs: the next episode is
\* looked up and, unless it is cached, a _trigger_pre_download task is
\* created for it
SmartPreCache(k) ==
    /\ k \in precache_tasks
    /\ precache_tasks' = precache_tasks \ {k}
    /\ LET next_file == NextEpisode(k)
       IN  IF next_file \in Predicted
           THEN /\ index' = GetCachedPathIndex(index, files, next_file)
                /\ trigger_tasks' = IF IsCached(index, files, next_file)
                                    THEN trigger_tasks
                                    ELSE trigger_tasks \cup {next_file}
           ELSE UNCHANGED <<index, trigger_tasks>>
    /\ UNCHANGED <<files, downloading, task, now, harness, req, resp>>

\* a _trigger_pre_download that starts a populator without asking whether
\* the item is cached or being downloaded
TriggerPreDownloadNoCheck(k, i, ok) ==
    /\ k \in trigger_tasks
    /\ trigger_tasks' = trigger_tasks \ {k}
    /\ IF ok /\ FreeSlots # {}
       THEN /\ LET t == CHOOSE x \in FreeSlots : \A y \in FreeSlots : x <= y
               IN  task' = [task EXCEPT ![t] =
                               [pc |-> "locate", key |-> k, attempt |-> 0,
                                client |-> NextClient(i)]]
            /\ downloading' = downloading \cup {k}
            /\ index' = index
       ELSE UNCHANGED <<index, downloading, task>>
    /\ UNCHANGED <<files, now, precache_tasks, harness, req, resp>>

\* the _trigger_pre_download task created for item k runs on the least
\* loaded session i: get_file_properties returns (ok) or raises, the hash
\* stored in the catalog is tested, the populator is admitted on another
\* session
TriggerPreDownload(k, i, ok) ==
    /\ k \in trigger_tasks
    /\ trigger_tasks' = trigger_tasks \ {k}
    /\ IF ok /\ ~InvalidHash(UniqueId(k), HashOf(UniqueId(k)))
       THEN StartBackgroundDownload(k, NextClient(i), index)
       ELSE UNCHANGED <<index, downloading, task>>
    /\ UNCHANGED <<files, now, precache_tasks, harness, req, resp>>

\* cleanup that deletes the orphaned rows and leaves the scores as stored
CleanupIndexStale(idx, fls, at) == [k \in (DOMAIN idx) \cap (DOMAIN fls) |-> idx[k]]

\* the two loops of cleanup: the rows whose file does not exist are deleted,
\* then the score of every row is recomputed at utcnow()
CleanupIndex(idx, fls, at) ==
    [k \in (DOMAIN idx) \cap (DOMAIN fls) |->
        [idx[k] EXCEPT !.score =
            CalculateScore(idx[k].access_count, idx[k].last_access, at)]]

\* cleanup, run by cache_cleanup_task every 30 minutes and by the dashboard
Cleanup ==
    /\ index' = CleanupIndex(index, files, now)
    /\ UNCHANGED <<files, downloading, task, now, spawned, harness, req, resp>>

\* time passes
Tick ==
    /\ now + RECENCY_DECAY_HOURS <= MaxClock
    /\ now' = now + RECENCY_DECAY_HOURS
    /\ UNCHANGED <<index, files, downloading, task, spawned, harness, req, resp>>

Next ==
    \/ \E k \in Requested, i \in Clients :
          \E secure_hash \in Hashes(k), r \in KeyRequests(k) :
             MediaStreamer(k, i, secure_hash, r)
    \/ \E k \in Requested : SmartPreCache(k)
    \/ \E k \in Requested, i \in Clients, ok \in BOOLEAN :
          TriggerPreDownload(k, i, ok)
    \/ \E t \in Tasks : LocateOk(t)
    \/ \E t \in Tasks, flood \in BOOLEAN : LocateFail(t, flood)
    \/ \E t \in Tasks : \E written \in Delivered(FileSize(task[t].key)) :
          StreamEnd(t, written)
    \/ \E t \in Tasks, flood \in BOOLEAN :
          \E written \in PartialWritten(FileSize(task[t].key)) :
             StreamFail(t, flood, written)
    \/ \E t \in Tasks : Wake(t)
    \/ \E t \in Tasks : \E written \in PartialWritten(FileSize(task[t].key)) :
          Cancel(t, written)
    \/ Cleanup
    \/ Tick

Spec == Init /\ [][Next]_vars

\* ------------------------------------------------------------------------
\* Requests on their own: every request and its response are kept, no
\* other stream is in flight when a request arrives (session 0 is the least
\* loaded), the populators run without failures
\* ------------------------------------------------------------------------
\* the file of a committed row is removed from the cache directory by
\* something other than the process ("Cache file missing" in
\* get_cached_path)
FileLost(k) ==
    /\ k \in (DOMAIN index) \cap (DOMAIN files)
    /\ k \notin downloading
    /\ files' = Remove(files, k)
    /\ UNCHANGED <<index, downloading, task, now, spawned, harness, req, resp>>

NextServe ==
    \/ \E k \in Requested :
          \E secure_hash \in Hashes(k), r \in KeyRequests(k) :
             Serve(k, 0, secure_hash, r)
    \/ \E t \in Tasks : LocateOk(t)
    \/ \E t \in Tasks : \E written \in Delivered(FileSize(task[t].key)) :
          StreamEnd(t, written)
    \/ \E k \in Requested : FileLost(k)
    \/ Tick

SpecServe == Init /\ [][NextServe]_vars

\* ------------------------------------------------------------------------
\* Requests and the predictor tasks they create: every request and its
\* response are kept, the smart_pre_cache tasks run, the populators run
\* without failures
\* ------------------------------------------------------------------------
NextAccess ==
    \/ \E k \in Requested :
          \E secure_hash \in Hashes(k), r \in KeyRequests(k) :
             Serve(k, 0, secure_hash, r)
    \/ \E k \in Requested : SmartPreCache(k)
    \/ \E t \in Tasks : LocateOk(t)
    \/ \E t \in Tasks : \E written \in Delivered(FileSize(task[t].key)) :
          StreamEnd(t, written)

SpecAccess == Init /\ [][NextAccess]_vars

\* ------------------------------------------------------------------------
\* A stream request whose handler is followed while it sends its body: the
\* client can disconnect, the populators run and fail
\* ------------------------------------------------------------------------
\* the populator tasks a step has created
Started == {t \in Tasks : ~Live(t) /\ task'[t].pc = "locate"}

\* stream_handler is entered for item k with the right hash and a whole
\* range; media_streamer runs up to "return web.Response(body=...)", whose
\* body the handler's task then sends
StreamBegin(k) ==
    /\ handler.pc \notin {"body"}
    /\ \E r \in KeyRequests(k) :
          /\ ~RangeNotSatisfiable(FromBytes(r), UntilBytes(r), r.file_size)
          /\ MediaStreamerState(k, 0, HashOf(UniqueId(k)), r)
    /\ handler' = [route |-> "stream", pc |-> "body", key |-> k,
                   admitted |-> IF Started = {} THEN 0
                                ELSE CHOOSE t \in Started : TRUE,
                   opened |-> "none"]
    /\ UNCHANGED <<files, now, trigger_tasks, evict, pool, calc, commit, call,
                   predict, naming, lock, catalog, req, resp>>

\* a disconnect that also cancels the populator the request admitted, as
\* if the handler awaited _download_file
DisconnectPropagates ==
    /\ handler.pc = "body"
    /\ handler' = [handler EXCEPT !.pc = "cancelled"]
    /\ task' = IF handler.admitted # 0 /\ Live(handler.admitted)
               THEN [task EXCEPT ![handler.admitted] = Ended("cancelled")]
               ELSE task
    /\ UNCHANGED <<index, files, downloading, now, spawned, evict, pool, calc,
                   commit, call, predict, naming, lock, catalog, req, resp>>

\* the client disconnects: the handler's task is cancelled at the await it
\* is suspended in and stream_handler swallows the CancelledError.  The
\* populator is a task of its own (asyncio.create_task), which the
\* cancellation does not reach
Disconnect ==
    /\ handler.pc = "body"
    /\ handler' = [handler EXCEPT !.pc = "cancelled"]
    /\ UNCHANGED <<index, files, downloading, task, now, spawned, evict, pool,
                   calc, commit, call, predict, naming, lock, catalog, req, resp>>

\* the body has been sent
BodyDone ==
    /\ handler.pc = "body"
    /\ handler' = [handler EXCEPT !.pc = "done"]
    /\ UNCHANGED <<index, files, downloading, task, now, spawned, evict, pool,
                   calc, commit, call, predict, naming, lock, catalog, req, resp>>

NextDisconnect ==
    \/ \E k \in Requested : StreamBegin(k)
    \/ Disconnect
    \/ BodyDone
    \/ \E t \in Tasks : LocateOk(t)
    \/ \E t \in Tasks, flood \in BOOLEAN : LocateFail(t, flood)
    \/ \E t \in Tasks : \E written \in Delivered(FileSize(task[t].key)) :
          StreamEnd(t, written)
    \/ \E t \in Tasks, flood \in BOOLEAN :
          \E written \in PartialWritten(FileSize(task[t].key)) :
             StreamFail(t, flood, written)
    \/ \E t \in Tasks : Wake(t)

SpecDisconnect == Init /\ [][NextDisconnect]_vars

\* ------------------------------------------------------------------------
\* The download mutex: start_background_download in the steps of its
\* "async with self._download_lock" block.  Nothing in the block awaits, so
\* no other task runs while the mutex is held
\* ------------------------------------------------------------------------
\* start_background_download(key k, ..., client_index) enters the block
LockAcquire(k, client_index) ==
    /\ lock.holder = "none"
    /\ FreeSlots # {}
    /\ lock' = [holder |-> "start_background_download", pc |-> "check", key |-> k,
                client_index |-> client_index, admitted |-> FALSE]
    /\ UNCHANGED <<index, files, downloading, task, now, spawned, evict, pool,
                   calc, commit, call, predict, naming, catalog, handler, req, resp>>

\* the three tests of the block and downloading.add
LockedCheckAndAdd ==
    /\ lock.pc = "check"
    /\ LET k == lock.key
       IN  IF Admit(k, index, files, downloading)
           THEN /\ downloading' = downloading \cup {k}
                /\ index' = GetCachedPathIndex(index, files, k)
                /\ lock' = [lock EXCEPT !.pc = "exit", !.admitted = TRUE]
           ELSE /\ downloading' = downloading
                /\ index' = IF k \in downloading THEN index
                            ELSE GetCachedPathIndex(index, files, k)
                /\ lock' = [lock EXCEPT !.pc = "exit"]
    /\ UNCHANGED <<files, task, now, spawned, evict, pool, calc, commit, call,
                   predict, naming, catalog, handler, req, resp>>

\* the block is left; asyncio.create_task(_download_file(...)) when the key
\* was added
LockRelease ==
    /\ lock.pc = "exit"
    /\ lock' = NoLock
    /\ task' = IF lock.admitted
               THEN LET t == CHOOSE x \in FreeSlots : \A y \in FreeSlots : x <= y
                    IN  [task EXCEPT ![t] =
                            [pc |-> "locate", key |-> lock.key, attempt |-> 0,
                             client |-> lock.client_index]]
               ELSE task
    /\ UNCHANGED <<index, files, downloading, now, spawned, evict, pool, calc,
                   commit, call, predict, naming, catalog, handler, req, resp>>

NextLock ==
    \/ \E k \in Requested, client_index \in Clients : LockAcquire(k, client_index)
    \/ LockedCheckAndAdd
    \/ LockRelease
    \/ \E t \in Tasks : lock.holder = "none" /\ LocateOk(t)
    \/ \E t \in Tasks, flood \in BOOLEAN : lock.holder = "none" /\ LocateFail(t, flood)
    \/ \E t \in Tasks : \E written \in Delivered(FileSize(task[t].key)) :
          lock.holder = "none" /\ StreamEnd(t, written)
    \/ \E t \in Tasks, flood \in BOOLEAN :
          \E written \in PartialWritten(FileSize(task[t].key)) :
             lock.holder = "none" /\ StreamFail(t, flood, written)
    \/ \E t \in Tasks : lock.holder = "none" /\ Wake(t)

SpecLock == Init /\ [][NextLock]_vars

\* ------------------------------------------------------------------------
\* A subtitle request that extracts from the cached video: ffprobe reads the
\* file when the request has looked it up, ffmpeg reads it again when
\* ffprobe has ended; meanwhile requests are served and populators run
\* ------------------------------------------------------------------------
\* what a process that opens the cache path of key k finds there
Opened(k) ==
    IF \E t \in Tasks : task[t].pc = "stream" /\ task[t].key = k THEN "writing"
    ELSE IF k \in DOMAIN files THEN "file"
    ELSE "missing"

\* get_subtitle for item k, no subtitle cached: get_cached_path, then
\* extract_subtitle_from_local_file up to "await detect_subtitle_tracks",
\* or the extraction from the remote store when the video is not cached
SubtitleBegin(k) ==
    /\ handler.pc \notin {"extract"}
    /\ index' = GetCachedPathIndex(index, files, k)
    /\ handler' = IF IsCached(index, files, k)
                  THEN [route |-> "subtitle", pc |-> "extract", key |-> k,
                        admitted |-> 0, opened |-> Opened(k)]
                  ELSE [route |-> "subtitle", pc |-> "done", key |-> k,
                        admitted |-> 0, opened |-> "none"]
    /\ UNCHANGED <<files, downloading, task, now, spawned, evict, pool, calc,
                   commit, call, predict, naming, lock, catalog, req, resp>>

\* detect_subtitle_tracks has returned: "await extract_subtitle(video_path,
\* ...)" runs ffmpeg -i on the path the lookup returned
SubtitleExtract ==
    /\ handler.pc = "extract"
    /\ handler' = [handler EXCEPT !.pc = "done", !.opened = Opened(handler.key)]
    /\ UNCHANGED <<index, files, downloading, task, now, spawned, evict, pool,
                   calc, commit, call, predict, naming, lock, catalog, req, resp>>

NextSubtitle ==
    \/ \E k \in Requested :
          \E r \in KeyRequests(k) : MediaStreamer(k, 0, HashOf(UniqueId(k)), r)
    \/ \E k \in Requested : SubtitleBegin(k)
    \/ SubtitleExtract
    \/ \E t \in Tasks : LocateOk(t)
    \/ \E t \in Tasks : \E written \in Delivered(FileSize(task[t].key)) :
          StreamEnd(t, written)

SpecSubtitle == Init /\ [][NextSubtitle]_vars

\* ------------------------------------------------------------------------
\* A cache hit whose handler is followed while it sends its body; meanwhile
\* requests are served and populators run and evict
\* ------------------------------------------------------------------------
\* stream_handler is entered for a cached item k with the right hash and a
\* satisfiable range: stream_from_cache records the access and returns the
\* response, whose body file_sender has not begun to produce
CacheStreamBegin(k) ==
    /\ handler.pc \notin {"headers", "body"}
    /\ IsCached(index, files, k)
    /\ \E r \in KeyRequests(k) :
          /\ ~RangeNotSatisfiable(FromBytes(r), UntilBytes(r), r.file_size)
          /\ MediaStreamerState(k, 0, HashOf(UniqueId(k)), r)
    /\ handler' = [route |-> "cache", pc |-> "headers", key |-> k, admitted |-> 0,
                   opened |-> "none"]
    /\ UNCHANGED <<files, now, trigger_tasks, evict, pool, calc, commit, call,
                   predict, naming, lock, catalog, req, resp>>

\* the headers have been sent and the first chunk is asked of file_sender:
\* open(cached_path, 'rb') on the path the lookup returned
FileSenderOpen ==
    /\ handler.route = "cache"
    /\ handler.pc = "headers"
    /\ handler' = [handler EXCEPT !.pc = "body", !.opened = Opened(handler.key)]
    /\ UNCHANGED <<index, files, downloading, task, now, spawned, evict, pool,
                   calc, commit, call, predict, naming, lock, catalog, req, resp>>

NextHit ==
    \/ \E k \in Requested :
          \E r \in KeyRequests(k) : MediaStreamer(k, 0, HashOf(UniqueId(k)), r)
    \/ \E k \in Requested : CacheStreamBegin(k)
    \/ FileSenderOpen
    \/ BodyDone
    \/ \E t \in Tasks : LocateOk(t)
    \/ \E t \in Tasks : \E written \in Delivered(FileSize(task[t].key)) :
          StreamEnd(t, written)

SpecHit == Init /\ [][NextHit]_vars

\* ------------------------------------------------------------------------
\* Requests for items that the remote store no longer holds: every request
\* and its response are kept, any item can have been removed from its
\* channel, the populators run without failures
\* ------------------------------------------------------------------------
\* web.HTTPNotFound raised by stream_handler
NotFound == [path |-> "none", status |-> 404, content_range |-> <<0, 0, 0>>,
             content_length |-> 0, source |-> "none", body |-> <<>>]

\* a handler that leaves the catalog as it is
DeleteFileNone(rows, k, hash) == rows

\* delete_file(chat_id, msg_id, hash): delete_one of the row with that
\* chat_id, msg_id and hash; the row of an item holds the first 6
\* characters of its unique_id
DeleteFile(rows, k, hash) ==
    IF hash = HashOf(UniqueId(k)) THEN rows \ {k} ELSE rows

\* stream_handler for item k: get_file_properties raises FIleNotFound
\* before media_streamer has tested the hash or looked the key up
StreamNotFound(k, secure_hash, r) ==
    /\ r \in KeyRequests(k)
    /\ catalog' = DeleteFile(catalog, k, secure_hash)
    /\ req' = Request(k, secure_hash, r)
    /\ resp' = NotFound
    /\ UNCHANGED <<index, files, downloading, task, now, spawned, evict, pool,
                   calc, commit, call, predict, naming, lock, handler>>

NextNotFound ==
    \/ \E k \in Requested :
          \E secure_hash \in Hashes(k), r \in KeyRequests(k) :
             Serve(k, 0, secure_hash, r)
    \/ \E k \in Requested :
          \E secure_hash \in Hashes(k), r \in KeyRequests(k) :
             StreamNotFound(k, secure_hash, r)
    \/ \E t \in Tasks : LocateOk(t)
    \/ \E t \in Tasks : \E written \in Delivered(FileSize(task[t].key)) :
          StreamEnd(t, written)

SpecNotFound == Init /\ [][NextNotFound]_vars

\* ------------------------------------------------------------------------
\* Requests whose locate fails on the session that serves them: every
\* request and its response are kept, the populators run without failures
\* ------------------------------------------------------------------------
\* web.HTTPInternalServerError raised by stream_handler
InternalServerError ==
    [path |-> "none", status |-> 500, content_range |-> <<0, 0, 0>>,
     content_length |-> 0, source |-> "none", body |-> <<>>]

\* stream_handler for item k on the least loaded session i:
\* get_file_properties raises an error that is neither FIleNotFound nor a
\* cancellation (a flood wait, a timeout, an RPC error).  media_streamer has
\* no handler for it and calls get_file_properties once; stream_handler
\* answers.  The handler keeps the session and the number of calls made
StreamLocateError(k, i, secure_hash, r) ==
    /\ r \in KeyRequests(k)
    /\ req' = Request(k, secure_hash, r)
    /\ resp' = InternalServerError
    /\ handler' = [route |-> "stream", pc |-> "failed", key |-> k, admitted |-> 0,
                   opened |-> "none", client |-> i, attempts |-> 1]
    /\ UNCHANGED <<index, files, downloading, task, now, spawned, evict, pool,
                   calc, commit, call, predict, naming, lock, catalog>>

NextLive ==
    \/ \E k \in Requested, i \in Clients : \E r \in KeyRequests(k) :
          Serve(k, i, HashOf(UniqueId(k)), r)
    \/ \E k \in Requested, i \in Clients : \E r \in KeyRequests(k) :
          StreamLocateError(k, i, HashOf(UniqueId(k)), r)
    \/ \E t \in Tasks : LocateOk(t)
    \/ \E t \in Tasks : \E written \in Delivered(FileSize(task[t].key)) :
          StreamEnd(t, written)

SpecLive == Init /\ [][NextLive]_vars

\* ------------------------------------------------------------------------
\* The choice of sessions on its own: one selection over a pool of any size
\* ------------------------------------------------------------------------
\* largest in-flight count of a session
MaxLoad == 2

\* the keys of work_loads in the order the dict yields them
WorkLoadKeys(n) == [j \in 1..n |-> j - 1]

\* min() keeping the last of the least keys
RECURSIVE MinScanLast(_, _, _, _)
MinScanLast(keys, i, best, work_loads) ==
    IF i > Len(keys) THEN best
    ELSE MinScanLast(keys, i + 1,
                     IF work_loads[keys[i]] <= work_loads[best] THEN keys[i] ELSE best,
                     work_loads)

\* min(work_loads, key=work_loads.get) from position i on: the first key
\* with the least value
RECURSIVE MinScan(_, _, _, _)
MinScan(keys, i, best, work_loads) ==
    IF i > Len(keys) THEN best
    ELSE MinScan(keys, i + 1,
                 IF work_loads[keys[i]] < work_loads[best] THEN keys[i] ELSE best,
                 work_loads)

LeastLoaded(n, work_loads) == MinScan(WorkLoadKeys(n), 2, WorkLoadKeys(n)[1], work_loads)

InitPool ==
    /\ index = EmptyMap
    /\ files = EmptyMap
    /\ downloading = {}
    /\ task = [t \in Tasks |-> NoTask]
    /\ now = 0
    /\ precache_tasks = {}
    /\ trigger_tasks = {}
    /\ \E n \in 1..(NumClients + 1) :
          \E work_loads \in [0..(n - 1) -> 0..MaxLoad] :
             pool = [phase |-> "idle", n |-> n, work_loads |-> work_loads,
                     index |-> 0, bg_index |-> 0]
    /\ calc = NoCalc
    /\ commit = NoCommit
    /\ evict = NoEvict
    /\ req = NoReq
    /\ resp = NoResp
    /\ NoProbes

\* index = min(work_loads, key=work_loads.get) of media_streamer and of
\* _trigger_pre_download
PickSession ==
    /\ pool.phase = "idle"
    /\ pool' = [pool EXCEPT !.phase = "picked",
                            !.index = LeastLoaded(pool.n, pool.work_loads)]
    /\ UNCHANGED <<index, files, downloading, task, now, spawned, evict, calc, commit,
                   probes, req, resp>>

\* bg_index = (index + 1) % len(multi_clients) of both
PickBackground ==
    /\ pool.phase = "picked"
    /\ pool' = [pool EXCEPT !.phase = "scheduled",
                            !.bg_index = PickOther(pool.index, pool.n)]
    /\ UNCHANGED <<index, files, downloading, task, now, spawned, evict, calc, commit,
                   probes, req, resp>>

NextPool == PickSession \/ PickBackground

SpecPool == InitPool /\ [][NextPool]_vars

\* ------------------------------------------------------------------------
\* The score on its own: one evaluation
\* ------------------------------------------------------------------------
\* the longest time since the last access, in hours
MaxElapsed == 250

InitScore ==
    /\ index = EmptyMap
    /\ files = EmptyMap
    /\ downloading = {}
    /\ task = [t \in Tasks |-> NoTask]
    /\ now = 0
    /\ precache_tasks = {}
    /\ trigger_tasks = {}
    /\ pool = NoPool
    /\ \E access_count \in 0..(MaxHits + 1), last_access \in {0, RECENCY_DECAY_HOURS} :
          \E elapsed \in 0..MaxElapsed :
             calc = [phase |-> "call", access_count |-> access_count,
                     last_access |-> last_access, at |-> last_access + elapsed,
                     score |-> 0]
    /\ commit = NoCommit
    /\ evict = NoEvict
    /\ req = NoReq
    /\ resp = NoResp
    /\ NoProbes

EvaluateScore ==
    /\ calc.phase = "call"
    /\ calc' = [calc EXCEPT !.phase = "done",
                            !.score = CalculateScore(calc.access_count,
                                                     calc.last_access, calc.at)]
    /\ UNCHANGED <<index, files, downloading, task, now, spawned, pool, evict, commit,
                   probes, req, resp>>

NextScore == EvaluateScore

SpecScore == InitScore /\ [][NextScore]_vars

\* one step of the populator task t: the await it is suspended in returns or
\* raises
TaskStep(t) ==
    \/ LocateOk(t)
    \/ \E flood \in BOOLEAN : LocateFail(t, flood)
    \/ \E written \in Delivered(FileSize(task[t].key)) : StreamEnd(t, written)
    \/ \E flood \in BOOLEAN :
          \E written \in PartialWritten(FileSize(task[t].key)) :
             StreamFail(t, flood, written)
    \/ Wake(t)

\* the event loop resumes every task whose await has completed
SpecFair == Spec /\ \A t \in Tasks : WF_vars(TaskStep(t))

\* ------------------------------------------------------------------------
\* The range arithmetic on its own: one request, answered on either path
\* ------------------------------------------------------------------------
InitRange ==
    /\ index = EmptyMap
    /\ files = EmptyMap
    /\ downloading = {}
    /\ task = [t \in Tasks |-> NoTask]
    /\ now = 0
    /\ precache_tasks = {}
    /\ trigger_tasks = {}
    /\ pool = NoPool
    /\ calc = NoCalc
    /\ commit = NoCommit
    /\ evict = NoEvict
    /\ req \in Requests
    /\ resp = NoResp
    /\ NoProbes

ServeRemote ==
    /\ resp = NoResp
    /\ resp' = RemoteResponse(req)
    /\ UNCHANGED <<cacheVars, req>>

ServeCache ==
    /\ resp = NoResp
    /\ resp' = CacheResponse(req, req.file_size)
    /\ UNCHANGED <<cacheVars, req>>

NextRange == ServeRemote \/ ServeCache

SpecRange == InitRange /\ [][NextRange]_vars

\* ------------------------------------------------------------------------
\* _ensure_space on its own: one call on a cache left by earlier runs
\* ------------------------------------------------------------------------
\* the items whose populator can have committed a row
Cacheable == {k \in Keys : IsCacheable(MimeType(k), Suffix(k))}

\* the documents the index can hold for an item: committed complete or at
\* the completeness threshold at hour 0, hit up to MaxHits times, the score
\* computed at the last access or by a later cleanup
StoredDocs(k) ==
    {[file_size |-> s, access_count |-> h, last_access |-> 0,
      score |-> CalculateScore(h, 0, at)] :
        s \in {w \in Delivered(FileSize(k)) : Complete(w, FileSize(k))},
        h \in 1..MaxHits,
        at \in {0, RECENCY_DECAY_HOURS}}

StoredIndexes ==
    UNION {[S -> UNION {StoredDocs(k) : k \in S}] : S \in SUBSET Cacheable}

\* the arguments of the call: a fifth of the budget, an item that fits
\* beside another, one that fills most of the budget, and one larger than
\* the budget
NeededBytes ==
    {MaxSizeBytes \div 5, MaxSizeBytes \div 2 - 25, MaxSizeBytes - 50, MaxSizeBytes + 50}

InitEvict ==
    /\ index \in StoredIndexes
    /\ \E S \in SUBSET (DOMAIN index) : files = [k \in S |-> index[k].file_size]
    /\ downloading = {}
    /\ task = [t \in Tasks |-> NoTask]
    /\ now = 0
    /\ precache_tasks = {}
    /\ trigger_tasks = {}
    /\ pool = NoPool
    /\ calc = NoCalc
    /\ commit = NoCommit
    /\ \E n \in NeededBytes :
          evict = [phase |-> "call", needed_bytes |-> n, index |-> index,
                   files |-> files, failed |-> {}]
    /\ req = NoReq
    /\ resp = NoResp
    /\ NoProbes

EnsureSpaceCall ==
    /\ evict.phase = "call"
    /\ \E docs \in Cursors(evict.needed_bytes, index),
          failing \in FailingSets(evict.needed_bytes, index, files) :
         LET r == EnsureSpace(evict.needed_bytes, docs, failing, index, files)
         IN  /\ index' = r.index
             /\ files' = r.files
             /\ evict' = [evict EXCEPT !.phase = "done", !.failed = r.failed]
    /\ UNCHANGED <<downloading, task, now, spawned, pool, calc, commit, probes,
                   req, resp>>

NextEvict == EnsureSpaceCall

SpecEvict == InitEvict /\ [][NextEvict]_vars

\* ------------------------------------------------------------------------
\* The commit on its own: up to two commits of one row on a cache left by
\* earlier runs, by the populator, by finalize_cache or by add_to_cache
\* ------------------------------------------------------------------------
InitCommit ==
    /\ index \in StoredIndexes
    /\ files = [k \in DOMAIN index |-> index[k].file_size]
    /\ downloading = {}
    /\ task = [t \in Tasks |-> NoTask]
    /\ now = 0
    /\ precache_tasks = {}
    /\ trigger_tasks = {}
    /\ pool = NoPool
    /\ calc = NoCalc
    /\ \E k \in Cacheable :
          \E w \in {x \in Delivered(FileSize(k)) : Complete(x, FileSize(k))} :
             commit = [NoCommit EXCEPT !.cache_key = k, !.actual_size = w]
    /\ evict = NoEvict
    /\ req = NoReq
    /\ resp = NoResp
    /\ NoProbes

\* what the harness keeps of a commit made by the function named by
Committed(by) ==
    commit' = [commit EXCEPT !.by = Append(@, by),
                             !.first = IF commit.by = <<>> THEN index' ELSE @,
                             !.first_at = IF commit.by = <<>> THEN now ELSE @,
                             !.at = now]

\* the success branch of _download_file for a key that had no row when its
\* populator was admitted: the file measures actual_size, the row is
\* upserted
DownloadFileCommit ==
    /\ Len(commit.by) < 2
    /\ commit.cache_key \notin DOMAIN index
    /\ files' = Put(files, commit.cache_key, commit.actual_size)
    /\ index' = Upsert(index, commit.cache_key,
                       CommitDoc(commit.actual_size, now))
    /\ Committed("_download_file")
    /\ UNCHANGED <<downloading, task, now, spawned, pool, calc, evict, probes,
                   req, resp>>

\* finalize_cache(..., file_path, file_size, ...): nothing when the file
\* does not exist, else the row is upserted
FinalizeCache ==
    /\ Len(commit.by) < 2
    /\ commit.cache_key \in DOMAIN files
    /\ index' = Upsert(index, commit.cache_key,
                       CommitDoc(commit.actual_size, now))
    /\ Committed("finalize_cache")
    /\ UNCHANGED <<files, downloading, task, now, spawned, pool, calc, evict,
                   probes, req, resp>>

\* add_to_cache(..., file_data, ...): _ensure_space(len(file_data)), the
\* file is written, the row is upserted
AddToCache ==
    /\ Len(commit.by) < 2
    /\ IsCacheable(MimeType(commit.cache_key), Suffix(commit.cache_key))
    /\ \E docs \in Cursors(commit.actual_size, index),
          failing \in FailingSets(commit.actual_size, index, files) :
         LET r == EnsureSpace(commit.actual_size, docs, failing, index, files)
         IN  /\ files' = Put(r.files, commit.cache_key, commit.actual_size)
             /\ index' = Upsert(r.index, commit.cache_key,
                                CommitDoc(commit.actual_size, now))
    /\ Committed("add_to_cache")
    /\ UNCHANGED <<downloading, task, now, spawned, pool, calc, evict, probes,
                   req, resp>>

NextCommit == DownloadFileCommit \/ FinalizeCache \/ AddToCache \/ Tick

SpecCommit == InitCommit /\ [][NextCommit]_vars

\* ------------------------------------------------------------------------
\* cleanup on its own: one call on a cache left by earlier runs, some of
\* whose files have been removed from the cache directory
\* ------------------------------------------------------------------------
InitSweep ==
    /\ index \in StoredIndexes
    /\ \E S \in SUBSET (DOMAIN index) : files = [k \in S |-> index[k].file_size]
    /\ downloading = {}
    /\ task = [t \in Tasks |-> NoTask]
    /\ now = 0
    /\ precache_tasks = {}
    /\ trigger_tasks = {}
    /\ pool = NoPool
    /\ calc = NoCalc
    /\ commit = NoCommit
    /\ evict = NoEvict
    /\ req = NoReq
    /\ resp = NoResp
    /\ NoProbes

\* cleanup() is called and returns; the state it found is kept
CleanupCall ==
    /\ call.fn = "none"
    /\ index' = CleanupIndex(index, files, now)
    /\ call' = [fn |-> "cleanup", key |-> "A", index |-> index, files |-> files,
                at |-> now, result |-> TRUE]
    /\ UNCHANGED <<files, downloading, task, now, spawned, evict, pool, calc, commit,
                   predict, naming, lock, catalog, handler, req, resp>>

NextSweep == CleanupCall \/ Tick

SpecSweep == InitSweep /\ [][NextSweep]_vars

\* ------------------------------------------------------------------------
\* The pattern matching of smart_pre_cache on its own: one run on a file
\* name.  Strings are sequences of characters.
\* ------------------------------------------------------------------------
DigitChars == <<"0", "1", "2", "3", "4", "5", "6", "7", "8", "9">>
IsDigit(c) == \E i \in 1..10 : DigitChars[i] = c
DigitVal(c) == (CHOOSE i \in 1..10 : DigitChars[i] = c) - 1

\* int(ep_num_str)
RECURSIVE ParseInt(_)
ParseInt(ds) ==
    IF ds = <<>> THEN 0
    ELSE ParseInt(SubSeq(ds, 1, Len(ds) - 1)) * 10 + DigitVal(ds[Len(ds)])

\* str(next_ep)
RECURSIVE Str(_)
Str(n) ==
    IF n < 10 THEN <<DigitChars[n + 1]>>
    ELSE Str(n \div 10) \o <<DigitChars[(n % 10) + 1]>>

\* str.zfill(width)
RECURSIVE ZFill(_, _)
ZFill(ds, width) == IF Len(ds) >= width THEN ds ELSE ZFill(<<"0">> \o ds, width)

\* the patterns of smart_pre_cache in their order, each as the text that
\* ends group 1, the bounds of \d{lo,hi}, and the text that starts group 3
Patterns ==
    <<[sep |-> <<" ", "-", " ">>, lo |-> 2, hi |-> 3, tail |-> <<" ", "[">>],
      [sep |-> <<"-", "-">>, lo |-> 2, hi |-> 3, tail |-> <<>>],
      [sep |-> <<" ">>, lo |-> 1, hi |-> 3, tail |-> <<" ">>]>>

\* lit occurs in s right after position pos
LitAt(s, pos, lit) ==
    pos + Len(lit) <= Len(s) /\ SubSeq(s, pos + 1, pos + Len(lit)) = lit

\* \d{lo,hi} after position pos, greedy: the widest run of w digits that
\* the start of group 3 follows, 0 when there is none
RECURSIVE TryWidth(_, _, _, _)
TryWidth(name, pat, pos, w) ==
    IF w < pat.lo THEN 0
    ELSE IF /\ pos + w <= Len(name)
            /\ \A i \in (pos + 1)..(pos + w) : IsDigit(name[i])
            /\ LitAt(name, pos + w, pat.tail)
         THEN w
         ELSE TryWidth(name, pat, pos, w - 1)

NoMatch == [matched |-> FALSE, prefix |-> <<>>, ep_num_str |-> <<>>]

\* re.match(pattern, name) with the greedy .* of group 1 ending at e, then
\* at e - 1, ...: the first way the pattern matches
RECURSIVE MatchFrom(_, _, _)
MatchFrom(name, pat, e) ==
    IF e < 0 THEN NoMatch
    ELSE LET pos == e + Len(pat.sep)
             w == IF LitAt(name, e, pat.sep) THEN TryWidth(name, pat, pos, pat.hi)
                  ELSE 0
         IN  IF w > 0
             THEN [matched |-> TRUE, prefix |-> SubSeq(name, 1, pos),
                   ep_num_str |-> SubSeq(name, pos + 1, pos + w)]
             ELSE MatchFrom(name, pat, e - 1)

ReMatch(pat, name) == MatchFrom(name, pat, Len(name))

\* the characters re.escape puts a backslash before
SpecialChars ==
    {"(", ")", "[", "]", "{", "}", "?", "*", "+", "-", "|", "^", "$", "\\",
     ".", "&", "~", "#", " "}

\* re.escape
RECURSIVE Escape(_)
Escape(str) ==
    IF str = <<>> THEN <<>>
    ELSE (IF str[1] \in SpecialChars THEN <<"\\", str[1]>> ELSE <<str[1]>>)
         \o Escape(Tail(str))

\* the search pattern without the padding of the next number
NextPatternNoFill(m) ==
    <<"^">> \o Escape(m.prefix) \o Str(ParseInt(m.ep_num_str) + 1) \o <<".", "*">>

\* next_filename_pattern of a match
NextPattern(m) ==
    <<"^">> \o Escape(m.prefix)
    \o ZFill(Str(ParseInt(m.ep_num_str) + 1), Len(m.ep_num_str))
    \o <<".", "*">>

\* "for pattern in patterns": the number of the first pattern from j that
\* matches the name, 0 when none does
RECURSIVE FirstPattern(_, _, _)
FirstPattern(patterns, name, j) ==
    IF j > Len(patterns) THEN 0
    ELSE IF ReMatch(patterns[j], name).matched THEN j
    ELSE FirstPattern(patterns, name, j + 1)

\* the loop over the patterns: the pattern that matched, its groups and
\* the search pattern built from them
PredictPattern(name) ==
    LET j == FirstPattern(Patterns, name, 1)
    IN  IF j = 0
        THEN [pattern |-> 0, prefix |-> <<>>, ep_num_str |-> <<>>,
              next_filename_pattern |-> <<>>]
        ELSE LET m == ReMatch(Patterns[j], name)
             IN  [pattern |-> j, prefix |-> m.prefix, ep_num_str |-> m.ep_num_str,
                  next_filename_pattern |-> NextPattern(m)]

\* file_name of the descriptor of each item
FileName(k) ==
    CASE k = "A" -> <<"S", " ", "-", " ", "0", "4", " ", "[", "a", "]", ".", "m", "k", "v">>
      [] k = "B" -> <<"S", " ", "-", " ", "0", "5", " ", "[", "a", "]">>
      [] k = "C" -> <<"S", " ", "-", " ", "0", "6", " ", "[", "a", "]", ".", "m", "p", "4">>
      [] OTHER -> <<"d", "o", "c", ".", "p", "d", "f">>

\* the file names the matching is run on: a title, a separator, an episode
\* number and a tail
NameHeads == {<<"S">>, <<"S", " ", "1">>, <<"S", " ", "-", " ", "0", "7", " ", "[">>}
NameSeps == {<<" ", "-", " ">>, <<"-", "-">>, <<" ">>, <<".">>}
NameNums ==
    {<<"4">>, <<"0", "4">>, <<"0", "9">>, <<"9", "9">>, <<"0", "9", "9">>,
     <<"9", "9", "9">>, <<"1", "2", "3", "4">>}
NameTails == {<<" ", "[", "a", "]">>, <<" ", "a">>, <<>>, <<".", "m">>}
FileNames ==
    {h \o p \o n \o t : h \in NameHeads, p \in NameSeps, n \in NameNums, t \in NameTails}
    \cup {FileName(k) : k \in Keys}

\* splitext(title)[0] of get_messages
RECURSIVE SplitExt(_, _)
SplitExt(name, i) ==
    IF i <= 1 THEN name
    ELSE IF name[i] = "." THEN SubSeq(name, 1, i - 1)
    ELSE SplitExt(name, i - 1)

\* the title get_messages stores for a file name: the extension is cut and
\* the characters . , | _ ' become spaces
Title(name) ==
    LET stem == SplitExt(name, Len(name))
    IN  [i \in 1..Len(stem) |->
            IF stem[i] \in {".", ",", "|", "_", "'"} THEN " " ELSE stem[i]]

\* the text a search pattern built by NextPattern matches at the start of a
\* title: the pattern without ^, without the final .* and without the
\* backslashes of re.escape
RECURSIVE Unescape(_)
Unescape(str) ==
    IF str = <<>> THEN <<>>
    ELSE IF str[1] = "\\" THEN <<str[2]>> \o Unescape(SubSeq(str, 3, Len(str)))
    ELSE <<str[1]>> \o Unescape(Tail(str))

PatternLiteral(pattern) == Unescape(SubSeq(pattern, 2, Len(pattern) - 2))

\* "$options": "i"
Fold(c) == IF c = "S" THEN "s" ELSE c
FoldAll(str) == [i \in 1..Len(str) |-> Fold(str[i])]

\* {"title": {"$regex": pattern, "$options": "i"}} matches the title
RegexMatches(pattern, title) ==
    LET lit == FoldAll(PatternLiteral(pattern))
    IN  Len(lit) <= Len(title) /\ SubSeq(FoldAll(title), 1, Len(lit)) = lit

\* the rows db.files.find_one can return for a search pattern
FindOne(pattern, rows) == {k \in rows : RegexMatches(pattern, Title(FileName(k)))}

InitPredict ==
    /\ index = EmptyMap
    /\ files = EmptyMap
    /\ downloading = {}
    /\ task = [t \in Tasks |-> NoTask]
    /\ now = 0
    /\ precache_tasks = {}
    /\ trigger_tasks = {}
    /\ pool = NoPool
    /\ calc = NoCalc
    /\ commit = NoCommit
    /\ evict = NoEvict
    /\ req = NoReq
    /\ resp = NoResp
    /\ call = NoCall
    /\ \E name \in FileNames :
          predict = [phase |-> "call", current_filename |-> name, pattern |-> 0,
                     prefix |-> <<>>, ep_num_str |-> <<>>,
                     next_filename_pattern |-> <<>>, lookups |-> 0]
    /\ naming = NoNaming
    /\ lock = NoLock
    /\ catalog = Keys
    /\ handler = NoHandler

\* smart_pre_cache(chat_id, current_filename) runs to its end: the loop
\* over the patterns, the return when none matched, else the two catalog
\* queries and the _trigger_pre_download task for the row found
SmartPreCacheCall ==
    /\ predict.phase = "call"
    /\ LET r == PredictPattern(predict.current_filename)
       IN  /\ predict' = [phase |-> "done",
                          current_filename |-> predict.current_filename,
                          pattern |-> r.pattern, prefix |-> r.prefix,
                          ep_num_str |-> r.ep_num_str,
                          next_filename_pattern |-> r.next_filename_pattern,
                          lookups |-> IF r.pattern = 0 THEN 0 ELSE 2]
           /\ IF r.pattern = 0 \/ FindOne(r.next_filename_pattern, catalog) = {}
              THEN UNCHANGED <<index, trigger_tasks>>
              ELSE \E next_file \in FindOne(r.next_filename_pattern, catalog) :
                      /\ index' = GetCachedPathIndex(index, files, next_file)
                      /\ trigger_tasks' = IF IsCached(index, files, next_file)
                                          THEN trigger_tasks
                                          ELSE trigger_tasks \cup {next_file}
    /\ UNCHANGED <<files, downloading, task, now, precache_tasks, evict, pool,
                   calc, commit, call, naming, lock, catalog, handler, req, resp>>

NextPredict == SmartPreCacheCall

SpecPredict == InitPredict /\ [][NextPredict]_vars

\* ------------------------------------------------------------------------
\* The cache path of an item on its own: a descriptor is drawn, and each
\* function that derives a path from it is applied once
\* ------------------------------------------------------------------------
\* the functions that derive a cache path, and the two callers that hand a
\* descriptor to the populator
CodePaths ==
    {"_download_file", "add_to_cache", "add_to_cache_streaming",
     "media_streamer", "_trigger_pre_download"}
NoPath == [md5_of |-> "none", ext |-> <<>>]

\* file_id.mime_type; "" stands for None
NamingMimes ==
    {"", "video/mp4", "video/x-matroska", "audio/mpeg", "audio/mp4",
     "audio/flac", "application/pdf"}
\* file_id.file_name; <<>> stands for None
NamingNames ==
    {<<>>,
     <<"e", ".", "M", "K", "V">>,
     <<"e", ".", "m", "p", "4">>,
     <<"e">>,
     <<".", "m", "k", "v">>}
\* secrets.token_hex(2)
Tokens == {<<"0", "0", "0", "0">>, <<"f", "f", "f", "f">>}

\* str.lower() on the letters of the names above
LowerChar(c) ==
    CASE c = "M" -> "m" [] c = "K" -> "k" [] c = "V" -> "v" [] OTHER -> c
Lower(cs) == [i \in 1..Len(cs) |-> LowerChar(cs[i])]

\* str.rfind('.'), 1-based, 0 when there is none
RECURSIVE RFindDot(_, _)
RFindDot(name, i) ==
    IF i = 0 THEN 0 ELSE IF name[i] = "." THEN i ELSE RFindDot(name, i - 1)

\* Path(file_name).suffix of a name without directories: the text from the
\* last dot on, when that dot is neither the first nor the last character
PathSuffix(name) ==
    LET i == RFindDot(name, Len(name))
    IN  IF 1 < i /\ i < Len(name) THEN SubSeq(name, i, Len(name)) ELSE <<>>

\* the extension strings of CACHEABLE_EXTENSIONS, from their characters
ExtText(ext) ==
    CASE ext = <<".", "m", "p", "4">> -> ".mp4"
      [] ext = <<".", "m", "k", "v">> -> ".mkv"
      [] ext = <<".", "w", "e", "b", "m">> -> ".webm"
      [] ext = <<".", "a", "v", "i">> -> ".avi"
      [] ext = <<".", "m", "o", "v">> -> ".mov"
      [] ext = <<".", "f", "l", "v">> -> ".flv"
      [] ext = <<".", "w", "m", "v">> -> ".wmv"
      [] ext = <<".", "m", "p", "3">> -> ".mp3"
      [] ext = <<".", "m", "4", "a">> -> ".m4a"
      [] ext = <<".", "f", "l", "a", "c">> -> ".flac"
      [] ext = <<".", "w", "a", "v">> -> ".wav"
      [] ext = <<".", "o", "g", "g">> -> ".ogg"
      [] ext = <<".", "a", "a", "c">> -> ".aac"
      [] OTHER -> ""

\* _is_cacheable(mime_type, file_name) on a file name given in full
IsCacheableName(mime_type, file_name) ==
    IsCacheable(mime_type,
                IF file_name = <<>> THEN "" ELSE ExtText(Lower(PathSuffix(file_name))))

\* ext_map of _download_file and of add_to_cache_streaming
ExtMapDownload(mime_type) ==
    CASE mime_type = "video/mp4" -> <<".", "m", "p", "4">>
      [] mime_type = "video/x-matroska" -> <<".", "m", "k", "v">>
      [] mime_type = "video/webm" -> <<".", "w", "e", "b", "m">>
      [] mime_type = "audio/mpeg" -> <<".", "m", "p", "3">>
      [] OTHER -> <<".", "b", "i", "n">>

\* ext_map of add_to_cache
ExtMapAddToCache(mime_type) ==
    CASE mime_type = "video/mp4" -> <<".", "m", "p", "4">>
      [] mime_type = "video/x-matroska" -> <<".", "m", "k", "v">>
      [] mime_type = "video/webm" -> <<".", "w", "e", "b", "m">>
      [] mime_type = "audio/mpeg" -> <<".", "m", "p", "3">>
      [] mime_type = "audio/mp4" -> <<".", "m", "4", "a">>
      [] mime_type = "audio/flac" -> <<".", "f", "l", "a", "c">>
      [] OTHER -> <<".", "b", "i", "n">>

\* _generate_filename(cache_key, extension): the md5 of the key, which is
\* kept as the key it is the digest of, and the extension
GenerateFilename(cache_key, ext) == [md5_of |-> cache_key, ext |-> ext]

\* the path _download_file writes to
DownloadFilePath(cache_key, mime_type, file_name) ==
    GenerateFilename(cache_key,
                     IF file_name # <<>> THEN Lower(PathSuffix(file_name))
                     ELSE ExtMapDownload(mime_type))

\* the path add_to_cache writes to
AddToCachePath(cache_key, mime_type, file_name) ==
    GenerateFilename(cache_key,
                     IF file_name # <<>> THEN Lower(PathSuffix(file_name))
                     ELSE IF mime_type # "" THEN ExtMapAddToCache(mime_type)
                     ELSE <<".", "b", "i", "n">>)

\* the path add_to_cache_streaming returns
AddToCacheStreamingPath(cache_key, mime_type, file_name) ==
    GenerateFilename(cache_key,
                     IF file_name # <<>> THEN Lower(PathSuffix(file_name))
                     ELSE ExtMapDownload(mime_type))

\* mime_type.split('/')[1]
MimeSubtype(mime_type) ==
    CASE mime_type = "video/mp4" -> <<"m", "p", "4">>
      [] mime_type = "video/x-matroska" -> <<"x", "-", "m", "a", "t", "r", "o", "s", "k", "a">>
      [] mime_type = "audio/mpeg" -> <<"m", "p", "e", "g">>
      [] mime_type = "audio/mp4" -> <<"m", "p", "4">>
      [] mime_type = "audio/flac" -> <<"f", "l", "a", "c">>
      [] OTHER -> <<"p", "d", "f">>

\* mimetypes.guess_type(file_name)[0] or "application/octet-stream"
GuessType(file_name) ==
    LET ext == Lower(PathSuffix(file_name))
    IN  CASE ext = <<".", "m", "k", "v">> -> "video/x-matroska"
          [] ext = <<".", "m", "p", "4">> -> "video/mp4"
          [] OTHER -> "application/octet-stream"

\* the mime type and the file name media_streamer works with
StreamerMime(mime_type, file_name) ==
    IF mime_type # "" THEN mime_type
    ELSE IF file_name # <<>> THEN GuessType(file_name)
    ELSE "application/octet-stream"
StreamerName(mime_type, file_name, token) ==
    IF file_name # <<>> THEN file_name
    ELSE IF mime_type # "" THEN token \o <<".">> \o MimeSubtype(mime_type)
    ELSE token \o <<".", "u", "n", "k", "n", "o", "w", "n">>

\* the title of the catalog row of a file: file_name, or else the caption or
\* the file_id, which here is the text "id"
RowTitle(file_name) == Title(IF file_name # <<>> THEN file_name ELSE <<"i", "d">>)

InitNaming ==
    /\ index = EmptyMap
    /\ files = EmptyMap
    /\ downloading = {}
    /\ task = [t \in Tasks |-> NoTask]
    /\ now = 0
    /\ precache_tasks = {}
    /\ trigger_tasks = {}
    /\ pool = NoPool
    /\ calc = NoCalc
    /\ commit = NoCommit
    /\ evict = NoEvict
    /\ req = NoReq
    /\ resp = NoResp
    /\ call = NoCall
    /\ predict = NoPredict
    /\ \E k \in Keys, mime_type \in NamingMimes, file_name \in NamingNames :
          naming = [phase |-> "descriptor", key |-> k, mime_type |-> mime_type,
                    file_name |-> file_name,
                    path |-> [v \in CodePaths |-> NoPath]]
    /\ lock = NoLock
    /\ catalog = Keys
    /\ handler = NoHandler

\* code path v has derived path p
Derived(v, p) ==
    /\ naming.phase = "descriptor"
    /\ naming.path[v] = NoPath
    /\ naming' = [naming EXCEPT !.path[v] = p]
    /\ UNCHANGED <<index, files, downloading, task, now, spawned, evict, pool,
                   calc, commit, call, predict, lock, catalog, handler, req, resp>>

\* _download_file with the descriptor as it is, after the test of
\* start_background_download
DownloadFileNaming ==
    /\ naming.phase = "descriptor"
    /\ IsCacheableName(naming.mime_type, naming.file_name)
    /\ Derived("_download_file",
               DownloadFilePath(naming.key, naming.mime_type, naming.file_name))

AddToCacheNaming ==
    /\ naming.phase = "descriptor"
    /\ IsCacheableName(naming.mime_type, naming.file_name)
    /\ Derived("add_to_cache",
               AddToCachePath(naming.key, naming.mime_type, naming.file_name))

AddToCacheStreamingNaming ==
    /\ naming.phase = "descriptor"
    /\ IsCacheableName(naming.mime_type, naming.file_name)
    /\ Derived("add_to_cache_streaming",
               AddToCacheStreamingPath(naming.key, naming.mime_type, naming.file_name))

\* media_streamer on a miss: the descriptor is completed, tested, and handed
\* to start_background_download
MediaStreamerNaming ==
    /\ naming.phase = "descriptor"
    /\ \E token \in Tokens :
          LET mime_type == StreamerMime(naming.mime_type, naming.file_name)
              file_name == StreamerName(naming.mime_type, naming.file_name, token)
          IN  /\ IsCacheableName(mime_type, file_name)
              /\ Derived("media_streamer",
                         DownloadFilePath(naming.key, mime_type, file_name))

\* _trigger_pre_download for the row of the item: the title of the row is
\* the file name handed to start_background_download
TriggerPreDownloadNaming ==
    /\ naming.phase = "descriptor"
    /\ LET mime_type == IF naming.mime_type # "" THEN naming.mime_type ELSE "video/mp4"
           file_name == RowTitle(naming.file_name)
       IN  /\ IsCacheableName(mime_type, file_name)
           /\ Derived("_trigger_pre_download",
                      DownloadFilePath(naming.key, mime_type, file_name))

NextNaming ==
    \/ DownloadFileNaming
    \/ AddToCacheNaming
    \/ AddToCacheStreamingNaming
    \/ MediaStreamerNaming
    \/ TriggerPreDownloadNaming

SpecNaming == InitNaming /\ [][NextNaming]_vars

\* ------------------------------------------------------------------------
\* The predictor's trigger with the hash of the catalog row: the row of an
\* item can hold the hash of a file that the message no longer carries.
\* Requests create the predictor tasks, the populators run without failures
\* ------------------------------------------------------------------------
\* a trigger that does not compare the located content id with the row's hash
TriggerPreDownloadRowNoTest(k, next_hash, i, ok) ==
    /\ k \in trigger_tasks
    /\ trigger_tasks' = trigger_tasks \ {k}
    /\ call' = [fn |-> "_trigger_pre_download", key |-> k, secure_hash |-> next_hash,
                located |-> ok, index |-> index, files |-> files, at |-> now,
                result |-> FALSE]
    /\ IF ok
       THEN StartBackgroundDownload(k, NextClient(i), index)
       ELSE UNCHANGED <<index, downloading, task>>
    /\ UNCHANGED <<files, now, precache_tasks, evict, pool, calc, commit, predict,
                   naming, lock, catalog, handler, req, resp>>

\* _trigger_pre_download(chat_id, msg_id, secure_hash = next_hash, title) for
\* item k on the least loaded session i: get_file_properties returns (ok) or
\* raises (the except clause logs and returns); the first 6 characters of
\* the located unique_id are compared with next_hash; then
\* start_background_download on the session after i.  The call is kept
TriggerPreDownloadRow(k, next_hash, i, ok) ==
    /\ k \in trigger_tasks
    /\ trigger_tasks' = trigger_tasks \ {k}
    /\ call' = [fn |-> "_trigger_pre_download", key |-> k, secure_hash |-> next_hash,
                located |-> ok, index |-> index, files |-> files, at |-> now,
                result |-> FALSE]
    /\ IF ok /\ ~InvalidHash(UniqueId(k), next_hash)
       THEN StartBackgroundDownload(k, NextClient(i), index)
       ELSE UNCHANGED <<index, downloading, task>>
    /\ UNCHANGED <<files, now, precache_tasks, evict, pool, calc, commit, predict,
                   naming, lock, catalog, handler, req, resp>>

NextTrigger ==
    \/ \E k \in Requested : \E r \in KeyRequests(k) :
          MediaStreamer(k, 0, HashOf(UniqueId(k)), r)
    \/ \E k \in Requested : SmartPreCache(k)
    \/ \E k \in Requested, i \in Clients, ok \in BOOLEAN :
          \E next_hash \in Hashes(k) : TriggerPreDownloadRow(k, next_hash, i, ok)
    \/ \E t \in Tasks : LocateOk(t)
    \/ \E t \in Tasks : \E written \in Delivered(FileSize(task[t].key)) :
          StreamEnd(t, written)

SpecTrigger == Init /\ [][NextTrigger]_vars

\* ------------------------------------------------------------------------
\* Concurrent requests of the subtitle route.  In this specification "lock"
\* holds the SubtitleCache object (the files of cache/subtitles, the locks
\* of _processing_locks that are held, and _processing_tasks) and "handler"
\* holds the get_subtitle handlers, by requester; a handler that has ended
\* keeps its response only.  The video cache stays empty, so
\* every extraction reads the remote store.  Subtitle files do not reach
\* their time to live (7 days) within the clock of the model
\* ------------------------------------------------------------------------
\* the requesters of subtitles
MaxSubtitleRequests == 2
Requesters == 1..MaxSubtitleRequests
SubtitleItems == {"A", "B"}
Tracks == {0, 1}

\* SubtitleCache._generate_cache_key: the md5 digest of
\* "{chat_id}_{msg_id}_{secure_hash}_{track_index}", one digest per tuple
GenerateCacheKey(k, secure_hash, track_index) == <<k, secure_hash, track_index>>

\* an asyncio.Lock nobody holds; holder 0 is no requester
FreeLock == [holder |-> 0, waiters |-> <<>>]
NoSubtitleHandler == [pc |-> "idle", key |-> "A", secure_hash |-> <<>>,
                      track_index |-> 0, waited |-> FALSE, status |-> 0,
                      source |-> "none"]

InitSubtitleLock ==
    /\ index = EmptyMap
    /\ files = EmptyMap
    /\ downloading = {}
    /\ task = [t \in Tasks |-> NoTask]
    /\ now = 0
    /\ precache_tasks = {}
    /\ trigger_tasks = {}
    /\ pool = NoPool
    /\ calc = NoCalc
    /\ commit = NoCommit
    /\ evict = NoEvict
    /\ req = NoReq
    /\ resp = NoResp
    /\ call = NoCall
    /\ predict = NoPredict
    /\ naming = NoNaming
    /\ catalog = Keys
    /\ lock = [subtitles |-> {}, processing_locks |-> EmptyMap,
               processing_tasks |-> {}]
    /\ handler = [r \in Requesters |-> NoSubtitleHandler]

\* the part of the state the subtitle route leaves alone
subtitleRest == <<files, downloading, task, now, spawned, evict, pool, calc,
                  commit, call, predict, naming, catalog, req, resp>>

\* the cache key of the subtitle requester r asks for, and the key of its
\* lock and of its processing mark (track_index has its default there)
SubtitleKey(r) ==
    GenerateCacheKey(handler[r].key, handler[r].secure_hash, handler[r].track_index)
ProcessingKey(r) == GenerateCacheKey(handler[r].key, handler[r].secure_hash, 0)

\* SubtitleCache.get_lock: the lock of the key, a free one when the key has
\* none or when nobody holds it
GetLock(locks, key) == IF key \in DOMAIN locks THEN locks[key] ELSE FreeLock

\* Lock.release: the first waiter is woken and holds the lock next
Release(locks, key) ==
    IF locks[key].waiters = <<>>
    THEN Remove(locks, key)
    ELSE [locks EXCEPT ![key] = [holder |-> Head(locks[key].waiters),
                                 waiters |-> Tail(locks[key].waiters)]]

\* the finally clause and the exit of "async with lock" for requester r
Finally(r) ==
    [lock EXCEPT !.processing_tasks = @ \ {ProcessingKey(r)},
                 !.processing_locks = Release(@, ProcessingKey(r))]

\* the response of requester r
Answered(r, status, source) ==
    [handler EXCEPT ![r] = [NoSubtitleHandler EXCEPT !.pc = "done",
                               !.waited = handler[r].waited,
                               !.status = status, !.source = source]]

\* get_subtitle(chat, id, hash, track) of requester r up to its first
\* suspension: the cache test, get_lock, and either the wait for the lock
\* or, the lock being free, the second cache test and mark_processing, up
\* to "await tg_connect.get_file_properties"
GetSubtitle(r, k, secure_hash, track_index) ==
    /\ handler[r].pc \in {"idle", "done", "cancelled"}
    /\ LET cache_key == GenerateCacheKey(k, secure_hash, track_index)
           lock_key == GenerateCacheKey(k, secure_hash, 0)
           held == GetLock(lock.processing_locks, lock_key)
           arrived == [pc |-> "idle", key |-> k, secure_hash |-> secure_hash,
                       track_index |-> track_index, waited |-> FALSE,
                       status |-> 0, source |-> "none"]
       IN  IF cache_key \in lock.subtitles
           THEN /\ handler' = [handler EXCEPT ![r] =
                      [NoSubtitleHandler EXCEPT !.pc = "done", !.status = 200,
                                                !.source = "HIT"]]
                /\ UNCHANGED lock
           ELSE IF held.holder = 0
           THEN /\ handler' = [handler EXCEPT ![r] = [arrived EXCEPT !.pc = "locate"]]
                /\ lock' = [lock EXCEPT
                      !.processing_locks = Put(@, lock_key, [held EXCEPT !.holder = r]),
                      !.processing_tasks = @ \cup {lock_key}]
           ELSE /\ handler' = [handler EXCEPT ![r] =
                      [arrived EXCEPT !.pc = "waiting", !.waited = TRUE]]
                /\ lock' = [lock EXCEPT
                      !.processing_locks =
                          Put(@, lock_key, [held EXCEPT !.waiters = Append(@, r)])]
    /\ UNCHANGED <<index, subtitleRest>>

\* a woken requester that extracts without looking at the cache again
LockAcquiredNoTest(r) ==
    /\ handler[r].pc = "waiting"
    /\ lock.processing_locks[ProcessingKey(r)].holder = r
    /\ handler' = [handler EXCEPT ![r].pc = "locate"]
    /\ lock' = [lock EXCEPT !.processing_tasks = @ \cup {ProcessingKey(r)}]
    /\ UNCHANGED <<index, subtitleRest>>

\* requester r has the lock it waited for: the second cache test of
\* get_subtitle, then mark_processing, up to get_file_properties
LockAcquired(r) ==
    /\ handler[r].pc = "waiting"
    /\ lock.processing_locks[ProcessingKey(r)].holder = r
    /\ IF SubtitleKey(r) \in lock.subtitles
       THEN /\ handler' = Answered(r, 200, "HIT")
            /\ lock' = [lock EXCEPT
                           !.processing_locks = Release(@, ProcessingKey(r))]
       ELSE /\ handler' = [handler EXCEPT ![r].pc = "locate"]
            /\ lock' = [lock EXCEPT !.processing_tasks = @ \cup {ProcessingKey(r)}]
    /\ UNCHANGED <<index, subtitleRest>>

\* get_file_properties has ended for requester r: it returned ("ok"), raised
\* FIleNotFound or raised another exception; the hash test; the lookup of
\* the video in the media cache, up to the await of the extraction
SubtitleLocated(r, outcome) ==
    /\ handler[r].pc = "locate"
    /\ IF outcome = "ok" /\ ~InvalidHash(UniqueId(handler[r].key), handler[r].secure_hash)
       THEN /\ index' = GetCachedPathIndex(index, files, handler[r].key)
            /\ handler' = [handler EXCEPT ![r].pc = "extract"]
            /\ UNCHANGED lock
       ELSE /\ handler' = Answered(r, CASE outcome = "ok" -> 403
                                        [] outcome = "FIleNotFound" -> 404
                                        [] OTHER -> 500, "none")
            /\ lock' = Finally(r)
            /\ UNCHANGED index
    /\ UNCHANGED subtitleRest

\* the extraction has ended for requester r: it returned the subtitle
\* ("content", which cache_subtitle stores), returned nothing ("empty") or
\* raised, as does a cache_subtitle that cannot write ("error")
SubtitleExtracted(r, outcome) ==
    /\ handler[r].pc = "extract"
    /\ handler' = Answered(r, CASE outcome = "content" -> 200
                                [] outcome = "empty" -> 404
                                [] OTHER -> 500,
                           IF outcome = "content" THEN "MISS" ELSE "none")
    /\ lock' = [Finally(r) EXCEPT !.subtitles =
                   IF outcome = "content" THEN @ \cup {SubtitleKey(r)} ELSE @]
    /\ UNCHANGED <<index, subtitleRest>>

\* the handler of requester r is cancelled in one of its awaits: a waiter
\* leaves the queue, or passes on the lock it was just given; a holder runs
\* its finally clause and leaves the lock
SubtitleCancelled(r) ==
    /\ handler[r].pc \in {"waiting", "locate", "extract"}
    /\ handler' = [handler EXCEPT ![r] = [NoSubtitleHandler EXCEPT !.pc = "cancelled"]]
    /\ lock' =
          IF handler[r].pc # "waiting" THEN Finally(r)
          ELSE IF lock.processing_locks[ProcessingKey(r)].holder = r
          THEN [lock EXCEPT !.processing_locks = Release(@, ProcessingKey(r))]
          ELSE [lock EXCEPT !.processing_locks[ProcessingKey(r)].waiters =
                   SelectSeq(@, LAMBDA w : w # r)]
    /\ UNCHANGED <<index, subtitleRest>>

NextSubtitleLock ==
    \/ \E r \in Requesters, k \in SubtitleItems, track_index \in Tracks :
          \E secure_hash \in Hashes(k) : GetSubtitle(r, k, secure_hash, track_index)
    \/ \E r \in Requesters : LockAcquired(r)
    \/ \E r \in Requesters, outcome \in {"ok", "FIleNotFound", "error"} :
          SubtitleLocated(r, outcome)
    \/ \E r \in Requesters, outcome \in {"content", "empty", "error"} :
          SubtitleExtracted(r, outcome)
    \/ \E r \in Requesters : SubtitleCancelled(r)

SpecSubtitleLock == InitSubtitleLock /\ [][NextSubtitleLock]_vars

\* ------------------------------------------------------------------------
\* The process started with the cache disabled (CACHE_ENABLED false, or an
\* initialisation that failed), on the collection and the directory that
\* earlier runs have left: every request and its response are kept
\* ------------------------------------------------------------------------
InitDisabled ==
    /\ index \in StoredIndexes
    /\ files = [k \in DOMAIN index |-> index[k].file_size]
    /\ downloading = {}
    /\ task = [t \in Tasks |-> NoTask]
    /\ now = 0
    /\ precache_tasks = {}
    /\ trigger_tasks = {}
    /\ pool = NoPool
    /\ calc = NoCalc
    /\ commit = NoCommit
    /\ evict = NoEvict
    /\ req = NoReq
    /\ resp = NoResp
    /\ NoProbes

\* a handler that does not look at media_cache.enabled
ServeEnabled(k, i, secure_hash, r) == Serve(k, i, secure_hash, r)

\* media_streamer while media_cache.enabled is False: get_cached_path
\* returns None before it reads the collection, so stream_from_cache is not
\* called, and "if media_cache.enabled and ..." skips
\* start_background_download and the smart_pre_cache task
ServeDisabled(k, i, secure_hash, r) ==
    /\ r \in KeyRequests(k)
    /\ req' = Request(k, secure_hash, r)
    /\ resp' = IF InvalidHash(UniqueId(k), secure_hash) THEN Forbidden
               ELSE RemoteResponse(r)
    /\ UNCHANGED <<index, files, downloading, task, now, spawned, harness>>

NextDisabled ==
    \E k \in Requested, i \in Clients :
       \E secure_hash \in Hashes(k), r \in KeyRequests(k) :
          ServeDisabled(k, i, secure_hash, r)

SpecDisabled == InitDisabled /\ [][NextDisabled]_vars

\* ========================================================================
\* Properties
\* ========================================================================
LiveFor(k) == {t \in Tasks : Live(t) /\ task[t].key = k}

\* C1: single-flight admission.  A _download_file task is started for a key
\* only by a call that finds the key outside the downloading set and puts
\* it in; no other populator task for the key is running then; the call
\* writes no cache file.  So of any number of calls made for a key while its
\* population runs, one starts a task and the others start none.
C1_SingleFlight ==
    [][\A t \in Tasks :
          (~Live(t) /\ Live(t)') =>
             /\ task'[t].key \notin downloading
             /\ task'[t].key \in downloading'
             /\ LiveFor(task'[t].key) = {}
             /\ files' = files]_vars

\* a populator is running for a key that is in the downloading set while
\* the other task slot is free for a second admission
C1_Witness ==
    \E t \in Tasks :
        /\ Live(t)
        /\ task[t].key \in downloading
        /\ task[t].key \in trigger_tasks
        /\ FreeSlots # {}

\* C2: a key is in the downloading set only while a populator task for it
\* is running: every way a task ends removes its key.
C2_KeyOnlyWhileRunning == \A k \in downloading : LiveFor(k) # {}

\* the requested range of the request, as parsed
ReqFrom == FromBytes(req)
ReqUntil == UntilBytes(req)
ValidRange == 0 <= ReqFrom /\ ReqFrom <= ReqUntil /\ ReqUntil <= req.file_size - 1

\* C3: for every valid range the chunks emitted on the remote path
\* concatenate to the bytes from..until of the file, and their length is
\* the Content-Length until - from + 1.
C3_RangeRoundTrip ==
    (resp.path = "MISS" /\ ValidRange) =>
        /\ resp.body = Bytes(ReqFrom, ReqUntil)
        /\ resp.content_length = ReqUntil - ReqFrom + 1
        /\ Len(resp.body) = resp.content_length

\* C4: on both paths a request is answered 416 with Content-Range
\* bytes */size exactly when its range does not satisfy
\* 0 <= from <= until <= size - 1.
C4_RangeValidation ==
    (resp # NoResp) =>
        /\ (resp.status = 416) <=> ~ValidRange
        /\ (resp.status = 416) => resp.content_range = <<-1, -1, req.file_size>>

\* C5: the sizes of the index rows sum to at most max_size_bytes whenever
\* no populator has a write in progress.
C5_WithinBudget ==
    (\A t \in Tasks : task[t].pc # "stream") => GetCacheSize(index) <= MaxSizeBytes

\* C6: when _ensure_space(needed_bytes) has returned, the remaining rows
\* plus needed_bytes fit the budget; and a call that found them fitting has
\* evicted nothing and changed no row.
C6_EnsureSpacePost ==
    (evict.phase = "done") =>
        /\ GetCacheSize(index) + evict.needed_bytes <= MaxSizeBytes
        /\ (GetCacheSize(evict.index) + evict.needed_bytes <= MaxSizeBytes)
              => (index = evict.index /\ files = evict.files)

\* the rows an eviction pass has removed, and the rows it has left
Evicted == (DOMAIN evict.index) \ (DOMAIN index)
Survivors == DOMAIN index

\* C7 as stated: after an eviction pass every surviving row has a stored
\* score strictly greater than that of every evicted row.
C7_StrictlyGreater ==
    (evict.phase = "done") =>
        \A s \in Survivors, e \in Evicted :
            evict.index[s].score > evict.index[e].score

\* C7 as amended: after an eviction pass every surviving row whose removal
\* did not raise has a stored score greater than or equal to that of every
\* evicted row.
C7_NotLower ==
    (evict.phase = "done") =>
        \A s \in Survivors \ evict.failed, e \in Evicted :
            evict.index[s].score >= evict.index[e].score

\* a pass has evicted two rows and left a row whose score equals that of
\* one and exceeds that of the other
C7_Witness ==
    /\ evict.phase = "done"
    /\ \E e1, e2 \in Evicted, s \in Survivors \ evict.failed :
          /\ evict.index[s].score = evict.index[e1].score
          /\ evict.index[s].score > evict.index[e2].score

\* C8: a row appears in the index only by the commit of a populator whose
\* file on disk measures at least 99% of the descriptor size, and its
\* file_size is that measure; an attempt that measures less removes the
\* file and leaves the index as it is.
C8_CommitOnlyComplete ==
    [][/\ \A k \in Keys :
            (k \notin DOMAIN index /\ k \in DOMAIN index') =>
               /\ k \in DOMAIN files'
               /\ files'[k] * 100 >= FileSize(k) * 99
               /\ index'[k].file_size = files'[k]
               /\ \E t \in LiveFor(k) :
                     task[t].pc = "stream" /\ task'[t].pc = "committed"
       /\ \A t \in Tasks :
            (task[t].pc = "stream" /\ task'[t].pc \in {"locate", "failed"}) =>
               /\ task[t].key \notin DOMAIN files'
               /\ index' = index]_vars

\* a populator has committed a file one percent short of the descriptor
\* size, and the row carries the size on disk
C8_Witness ==
    \E k \in (DOMAIN index) \cap (DOMAIN files) :
        /\ index[k].file_size = files[k]
        /\ files[k] < FileSize(k)
        /\ \E t \in Tasks : task[t].pc = "committed"

\* C9: when a populator ends because all its attempts failed, no file is
\* left at the cache path of its key and the row of its key is as it was.
C9_FailureLeavesNothing ==
    [][\A t \in Tasks :
          (Live(t) /\ task'[t].pc = "failed") =>
             /\ task[t].key \notin DOMAIN files'
             /\ index' = index]_vars

\* C10: a populator that is cancelled leaves no file at the cache path of
\* its key, writes no row and ends.
C10_CancelCleansUp ==
    [][\A t \in Tasks :
          (Live(t) /\ task'[t].pc = "cancelled") =>
             /\ task[t].key \notin DOMAIN files'
             /\ index' = index
             /\ ~Live(t)']_vars

\* the step handles the request that req holds after it
ServeStep ==
    /\ req' # NoReq
    /\ UNCHANGED <<files, now, trigger_tasks, harness>>
    /\ \E i \in Clients :
          MediaStreamerState(req'.key, i, req'.secure_hash,
                             [file_size |-> req'.file_size, kind |-> req'.kind,
                              a |-> req'.a, b |-> req'.b])

\* C11: a populator makes at most len(multi_clients) attempts: the attempt
\* it is in is numbered below the pool size, every new attempt takes the
\* next number, an attempt that fails as the last one ends the task, and
\* every populator whose awaits return or raise ends.
C11_BoundedAttempts ==
    /\ [](\A t \in Tasks : Live(t) => task[t].attempt < NumClients)
    /\ [][\A t \in Tasks :
            /\ (task[t].pc \in {"stream", "sleep"} /\ task'[t].pc = "locate")
                  => task'[t].attempt = task[t].attempt + 1
            /\ (task[t].pc = "sleep" /\ task[t].attempt = NumClients - 1)
                  => (task'[t].pc \in {"sleep", "failed", "cancelled"})]_vars
    /\ \A t \in Tasks : Live(t) ~> ~Live(t)

\* a populator has ended after its last attempt failed
C11_Witness == \E t \in Tasks : task[t].pc = "failed"

\* C12: a request whose hash parameter differs from the first 6 characters
\* of the unique_id of the located descriptor is answered 403 with no body,
\* and handling it changes nothing: no row is read away or written, no
\* populator is admitted, no predictor task is created, no access is
\* recorded.
C12_InvalidHashRejected ==
    [][(ServeStep /\ req'.secure_hash # SubSeq(UniqueId(req'.key), 1, 6)) =>
          /\ resp'.status = 403
          /\ resp'.path = "none"
          /\ resp'.body = <<>>
          /\ UNCHANGED <<index, files, downloading, task,
                         precache_tasks, trigger_tasks>>]_vars

\* a request with a wrong hash has been rejected for an item that is
\* cacheable, not cached and not being downloaded while a task slot is
\* free, and no populator has been admitted for it
C12_Witness ==
    /\ resp.status = 403
    /\ req.kind # "none"
    /\ IsCacheable(MimeType(req.key), Suffix(req.key))
    /\ req.key \notin downloading
    /\ ~IsCached(index, files, req.key)
    /\ FreeSlots # {}
    /\ req.key \notin precache_tasks

C14_HitBody ==
    (/\ resp.path = "HIT"
     /\ 0 <= FromBytes(req) /\ FromBytes(req) <= UntilBytes(req)
     /\ UntilBytes(req) <= req.file_size - 1) =>
        /\ resp.body = Bytes(FromBytes(req), UntilBytes(req))
        /\ resp.content_length = UntilBytes(req) - FromBytes(req) + 1
        /\ Len(resp.body) = resp.content_length

\* C15: a 200 or 206 response is labelled HIT exactly when, at the lookup,
\* the index holds a row for the key and the file of the row exists; its
\* body is then read from the disk and is the bytes of that file; otherwise
\* it is labelled MISS and its body is read from the remote store.
C15_HitIffCached ==
    [][(ServeStep /\ resp'.status \in {200, 206}) =>
          LET k == req'.key
              from_bytes == FromBytes(req')
              until_bytes == Min(UntilBytes(req'), req'.file_size - 1)
              cached == k \in DOMAIN index /\ k \in DOMAIN files
          IN  /\ resp'.path \in {"HIT", "MISS"}
              /\ (resp'.path = "HIT") <=> cached
              /\ cached =>
                    /\ resp'.source = "disk"
                    /\ resp'.body =
                          Bytes(from_bytes, Min(until_bytes, files[k] - 1))
              /\ ~cached => resp'.source = "remote"]_vars

\* a request has been answered from the cache with the whole file of the
\* row that the index holds for its key
C15_Witness ==
    /\ resp.path = "HIT"
    /\ resp.source = "disk"
    /\ IsCached(index, files, req.key)
    /\ Len(resp.body) = files[req.key]

\* C16: the session a populator is scheduled on differs from the session
\* that serves the live request, or that the predictor located on, for
\* every pool size from 1.
C16_DifferentSession ==
    (pool.phase = "scheduled") => pool.bg_index # pool.index

\* C17: the session chosen has the least in-flight count of all sessions,
\* and is the lowest index among those with that count.
C17_LeastLoaded ==
    (pool.phase \in {"picked", "scheduled"}) =>
        \A j \in 0..(pool.n - 1) :
            /\ pool.work_loads[pool.index] <= pool.work_loads[j]
            /\ (pool.work_loads[j] = pool.work_loads[pool.index]) => pool.index <= j

\* a session has been chosen that ties with a higher index and that is not
\* the first of the pool
C17_Witness ==
    /\ pool.phase = "picked"
    /\ pool.index > 0
    /\ \E j \in 0..(pool.n - 1) :
          j > pool.index /\ pool.work_loads[j] = pool.work_loads[pool.index]

\* C18: the score of h accesses, the last one e hours ago, is
\* 10 * h + max(0, 100 - 10 * e / 24) (times ScoreScale); one more access
\* does not lower it, one more hour does not raise it, its recency part
\* lies in 0..100 and is 0 from 240 hours on.
C18_ScoreFunction ==
    (calc.phase = "done") =>
        LET h == calc.access_count
            e == calc.at - calc.last_access
            recency == calc.score - 10 * h * ScoreScale
        IN  /\ calc.score * 24 =
                  10 * h * ScoreScale * 24
                  + Max(0, 100 * ScoreScale * 24 - 10 * e * ScoreScale)
            /\ calc.score <= CalculateScore(h + 1, calc.last_access, calc.at)
            /\ calc.score >= CalculateScore(h, calc.last_access, calc.at + 1)
            /\ 0 <= recency /\ recency <= 100 * ScoreScale
            /\ (e >= 240) => recency = 0

\* the score of a row last accessed more than 10 days ago has been
\* evaluated
C18_Witness ==
    /\ calc.phase = "done"
    /\ calc.at - calc.last_access > 240
    /\ calc.access_count >= 1
    /\ calc.score = 10 * calc.access_count * ScoreScale

\* the commits of the harness were made without eviction
PlainCommits == \A i \in 1..Len(commit.by) : commit.by[i] # "add_to_cache"

\* the row of the committed key is the one a commit at the time of the
\* latest commit writes
CommittedRow ==
    /\ commit.cache_key \in DOMAIN index
    /\ index[commit.cache_key].file_size = commit.actual_size
    /\ index[commit.cache_key].access_count = 1
    /\ index[commit.cache_key].last_access = commit.at
    /\ index[commit.cache_key].score = CalculateScore(1, commit.at, commit.at)

\* C19 as stated: a commit leaves one row for its key with access_count 1,
\* last_access now and the score of one access at now, and a second commit
\* with the same arguments leaves the index as the first one left it.
C19_CommitIdempotent ==
    (commit.by # <<>> /\ PlainCommits) =>
        /\ CommittedRow
        /\ (Len(commit.by) = 2) => index = commit.first

\* C19 as amended: a commit leaves one row for its key with access_count
\* 1, last_access now and the score of one access at now; a second commit
\* with the same arguments leaves the same rows, the rows of other keys and
\* the size and access_count of its own row as the first one left them, and
\* the whole index so when the clock reads the same at both commits.
C19_CommitRewritesRow ==
    (commit.by # <<>> /\ PlainCommits) =>
        /\ CommittedRow
        /\ (Len(commit.by) = 2) =>
              /\ DOMAIN index = DOMAIN commit.first
              /\ \A k \in (DOMAIN index) \ {commit.cache_key} :
                    index[k] = commit.first[k]
              /\ index[commit.cache_key].file_size =
                    commit.first[commit.cache_key].file_size
              /\ index[commit.cache_key].access_count =
                    commit.first[commit.cache_key].access_count
              /\ (commit.at = commit.first_at) => index = commit.first

\* a row has been committed twice, a day apart, beside another row
C19_Witness ==
    /\ Len(commit.by) = 2
    /\ PlainCommits
    /\ commit.at > commit.first_at
    /\ (DOMAIN index) \ {commit.cache_key} # {}

\* C20: the access_count of a row never decreases while the row exists,
\* whatever hits, commits, cleanups and evictions of other rows happen.
C20_HitsMonotonic ==
    [][\A k \in (DOMAIN index) \cap (DOMAIN index') :
          index'[k].access_count >= index[k].access_count]_vars

\* C21: when cleanup has returned, every remaining row has its file on disk,
\* every row whose file exists has been kept, the stored score of every
\* remaining row is _calculate_score(access_count, last_access) at the time
\* of the call, and no access_count, last_access, file_size or file has
\* changed.
C21_CleanupPost ==
    (call.fn = "cleanup") =>
        /\ \A k \in DOMAIN index : k \in DOMAIN files
        /\ \A k \in (DOMAIN call.index) \cap (DOMAIN call.files) : k \in DOMAIN index
        /\ DOMAIN index \subseteq DOMAIN call.index
        /\ \A k \in DOMAIN index :
              /\ index[k].score =
                    CalculateScore(call.index[k].access_count,
                                   call.index[k].last_access, call.at)
              /\ index[k].access_count = call.index[k].access_count
              /\ index[k].last_access = call.index[k].last_access
              /\ index[k].file_size = call.index[k].file_size
        /\ files = call.files

\* a cleanup a day after the last access has deleted an orphaned row and
\* lowered the stored score of a row it kept
C21_Witness ==
    /\ call.fn = "cleanup"
    /\ call.at > 0
    /\ (DOMAIN call.index) \ (DOMAIN index) # {}
    /\ \E k \in DOMAIN index : index[k].score < call.index[k].score

\* C22: a request whose lookup finds the row of its key without the file
\* deletes that row and no other, is answered as a MISS, and admits a
\* populator for the key when the item is cacheable and not being
\* downloaded; a request whose lookup finds the row and the file removes no
\* row and no file and admits nothing, and leaves the index as it is when it
\* records no access.
C22_OrphanRowDropped ==
    [][(ServeStep /\ req'.secure_hash = SubSeq(UniqueId(req'.key), 1, 6)) =>
          LET k == req'.key
          IN  /\ (k \in DOMAIN index /\ k \notin DOMAIN files) =>
                    /\ k \notin DOMAIN index'
                    /\ resp'.path = "MISS"
                    /\ \A x \in (DOMAIN index) \ {k} :
                          x \in DOMAIN index' /\ index'[x] = index[x]
                    /\ (/\ IsCacheable(MimeType(k), Suffix(k))
                        /\ k \notin downloading
                        /\ FreeSlots # {}) =>
                          /\ k \in downloading'
                          /\ \E t \in Tasks :
                                ~Live(t) /\ Live(t)' /\ task'[t].key = k
              /\ (k \in DOMAIN index /\ k \in DOMAIN files) =>
                    /\ DOMAIN index' = DOMAIN index
                    /\ index'[k].file_size = index[k].file_size
                    /\ UNCHANGED <<files, downloading, task>>
                    /\ (resp'.status = 416) => index' = index]_vars

\* a key that one populator has committed is being populated again after
\* a request found its row without the file: the request was answered as a
\* MISS, the row is gone and a new populator is locating the item
C22_Witness ==
    /\ resp.path = "MISS"
    /\ resp.status = 206
    /\ req.key \in downloading
    /\ req.key \notin (DOMAIN index) \cup (DOMAIN files)
    /\ DOMAIN index = {}
    /\ \E t, u \in Tasks :
          /\ task[t].pc = "committed"
          /\ task[u] = [pc |-> "locate", key |-> req.key, attempt |-> 0,
                         client |-> NextClient(0)]
    /\ \A t \in Tasks : task[t].pc \in {"committed", "locate"}

\* the ways pattern pat matches a name: group 1 ends its .* at e and
\* group 2 takes w digits
Splits(name, pat) ==
    {x \in (0..Len(name)) \X (pat.lo..pat.hi) :
        LET pos == x[1] + Len(pat.sep)
        IN  /\ pos + x[2] + Len(pat.tail) <= Len(name)
            /\ SubSeq(name, x[1] + 1, pos) = pat.sep
            /\ \A i \in (pos + 1)..(pos + x[2]) : name[i] \in {DigitChars[d] : d \in 1..10}
            /\ SubSeq(name, pos + x[2] + 1, pos + x[2] + Len(pat.tail)) = pat.tail}

\* the way a greedy match takes: the longest group 1, then the longest
\* group 2
GreedySplit(name, pat) ==
    CHOOSE x \in Splits(name, pat) :
        \A y \in Splits(name, pat) : y[1] < x[1] \/ (y[1] = x[1] /\ y[2] <= x[2])

\* the number a sequence of digits writes
DecimalValue(ds) ==
    LET f[i \in 0..Len(ds)] == IF i = 0 THEN 0 ELSE f[i - 1] * 10 + DigitVal(ds[i])
    IN  f[Len(ds)]

\* C23: the predictor takes the first pattern of the list that matches the
\* file name; with p the prefix and n the number it captures, w digits
\* wide, the search pattern is ^, p escaped, n + 1 written with at least w
\* digits (zeros in front), then .*, so that it matches the titles that
\* start with p followed by that number; for a file name that no pattern
\* matches there is no catalog query and no task is created.
C23_NextPattern ==
    (predict.phase = "done") =>
        LET name == predict.current_filename
            matching == {j \in 1..Len(Patterns) : Splits(name, Patterns[j]) # {}}
        IN  IF matching = {}
            THEN /\ predict.pattern = 0
                 /\ predict.lookups = 0
                 /\ trigger_tasks = {}
                 /\ task = [t \in Tasks |-> NoTask]
            ELSE LET first == CHOOSE j \in matching : \A i \in matching : j <= i
                     x == GreedySplit(name, Patterns[first])
                     p == SubSeq(name, 1, x[1] + Len(Patterns[first].sep))
                     w == x[2]
                     n == DecimalValue(SubSeq(name, Len(p) + 1, Len(p) + w))
                     q == predict.next_filename_pattern
                     next == SubSeq(q, 2 + Len(Escape(p)), Len(q) - 2)
                 IN  /\ predict.pattern = first
                     /\ predict.prefix = p
                     /\ Len(predict.ep_num_str) = w
                     /\ q = <<"^">> \o Escape(p) \o next \o <<".", "*">>
                     /\ \A i \in 1..Len(next) : IsDigit(next[i])
                     /\ DecimalValue(next) = n + 1
                     /\ Len(next) >= w
                     /\ (Len(next) > w) => next[1] # "0"
                     /\ PatternLiteral(q) = p \o next
                     /\ predict.lookups > 0

\* the first pattern has matched a name that the third pattern matches
\* with another prefix, and the next number keeps its zero
C23_Witness ==
    /\ predict.phase = "done"
    /\ predict.pattern = 1
    /\ ReMatch(Patterns[3], predict.current_filename).matched
    /\ ReMatch(Patterns[3], predict.current_filename).prefix # predict.prefix
    /\ predict.next_filename_pattern =
          <<"^", "S", "\\", " ", "\\", "-", "\\", " ", "0", "8", ".", "*">>

C25_AccessTriggersPredictor ==
    [][(ServeStep /\ resp'.status \in {200, 206}) =>
          req'.key \in precache_tasks']_vars

\* C26: the cancellation of a request handler leaves every populator and
\* the downloading set as they are; the populator a cancelled request
\* admitted is running with its key in the downloading set, or has ended
\* by its commit or by the failure of its last attempt; and a populator
\* ends, and its key leaves the downloading set, only by one of these two.
C26_PopulatorOutlivesRequest ==
    /\ [][(handler.pc = "body" /\ handler'.pc = "cancelled") =>
             UNCHANGED <<task, downloading, index, files>>]_vars
    /\ []((handler.pc = "cancelled" /\ handler.admitted # 0) =>
             LET t == handler.admitted
             IN  \/ Live(t) /\ task[t].key \in downloading
                 \/ task[t].pc \in {"committed", "failed"})
    /\ [][\A t \in Tasks :
             (Live(t) /\ ~Live(t)') =>
                /\ task'[t].pc \in {"committed", "failed"}
                /\ task[t].key \in downloading
                /\ task[t].key \notin downloading']_vars
    /\ [][\A k \in downloading \ downloading' :
             \E t \in Tasks : Live(t) /\ ~Live(t)' /\ task[t].key = k]_vars

\* the request that admitted a populator has been cancelled and the
\* populator is in a later attempt
C26_Witness ==
    /\ handler.pc = "cancelled"
    /\ handler.admitted # 0
    /\ Live(handler.admitted)
    /\ task[handler.admitted].key = handler.key
    /\ task[handler.admitted].attempt > 0

\* C27: every step that changes the downloading set, by adding a key or by
\* removing one, is taken while _download_lock is held, by the task that
\* holds it.
C27_MutationsUnderLock ==
    [][(downloading' # downloading) =>
          /\ lock.holder # "none"
          /\ lock'.holder = lock.holder]_vars

\* C28: while a populator has the cache file of its key open for writing,
\* the index holds no row for the key, so that no request finds it cached,
\* and no other task opens the file.
C28_WriterOwnsFile ==
    /\ \A t \in Tasks :
          (task[t].pc = "stream") =>
             /\ task[t].key \notin DOMAIN index
             /\ ~IsCached(index, files, task[t].key)
    /\ handler.opened # "writing"

SixTypeExt(mime_type, file_name) ==
    IF file_name # <<>> THEN Lower(PathSuffix(file_name))
    ELSE CASE mime_type = "video/mp4" -> <<".", "m", "p", "4">>
           [] mime_type = "video/x-matroska" -> <<".", "m", "k", "v">>
           [] mime_type = "video/webm" -> <<".", "w", "e", "b", "m">>
           [] mime_type = "audio/mpeg" -> <<".", "m", "p", "3">>
           [] mime_type = "audio/mp4" -> <<".", "m", "4", "a">>
           [] mime_type = "audio/flac" -> <<".", "f", "l", "a", "c">>
           [] OTHER -> <<".", "b", "i", "n">>

\* C30: the populator's file is named md5(cache_key) followed by the suffix
\* of the file name when there is one, else by the extension of the mime
\* type (.mp4, .mkv, .webm, .mp3, .m4a, .flac), else by .bin; and all the
\* code paths that derive a path for one key and descriptor derive the same.
C30_SamePathEverywhere ==
    naming.phase = "descriptor" =>
        /\ naming.path["_download_file"] # NoPath =>
              naming.path["_download_file"] =
                 [md5_of |-> naming.key,
                  ext |-> SixTypeExt(naming.mime_type, naming.file_name)]
        /\ \A v, w \in CodePaths :
              (naming.path[v] # NoPath /\ naming.path[w] # NoPath) =>
                 naming.path[v] = naming.path[w]

\* C31: a key is handed to the populator, which happens only after
\* start_background_download has added it to the downloading set, only if
\* the item's mime type is a cacheable mime type or the extension of its
\* file name is a cacheable extension; the predicate is false when mime type
\* and file name are both absent and true when either test succeeds.
C31_AdmittedOnlyCacheable ==
    naming.phase = "descriptor" =>
        LET by_mime == naming.mime_type \in CACHEABLE_MIMETYPES
            by_ext == /\ naming.file_name # <<>>
                      /\ ExtText(Lower(PathSuffix(naming.file_name)))
                            \in CACHEABLE_EXTENSIONS
        IN  /\ \A v \in {"media_streamer", "_trigger_pre_download"} :
                  naming.path[v] # NoPath => (by_mime \/ by_ext)
            /\ (naming.mime_type = "" /\ naming.file_name = <<>>) =>
                  ~IsCacheableName(naming.mime_type, naming.file_name)
            /\ (by_mime \/ by_ext) =>
                  IsCacheableName(naming.mime_type, naming.file_name)

\* C32: a live request whose locate fails with a throttling or transient
\* error is answered 500 only after the locate has been tried on all the
\* NumClients sessions, each on the session after the one before.
C32_LiveRetriedOnEverySession ==
    [][(resp'.status = 500 /\ <<req, resp, handler>>' # <<req, resp, handler>>) =>
          handler'.attempts = NumClients]_vars

\* C33: an attempt of a populator that fails with an error moves the
\* populator to the session after the one it used; the next attempt starts
\* with a new locate on that session; the cache file is empty when an
\* attempt starts to write it; and the committed file holds what the
\* committing attempt received and nothing more.
C33_RetryStartsAfresh ==
    [][\A t \in Tasks :
          LET k == task[t].key
          IN  /\ (task[t].pc \in {"locate", "stream"} /\ task'[t].pc = "sleep") =>
                    /\ task'[t].client = (task[t].client + 1) % NumClients
                    /\ task'[t].attempt = task[t].attempt
              /\ (task[t].pc = "sleep" /\ task'[t] # task[t]) =>
                    \/ /\ task'[t].pc = "locate"
                       /\ task'[t].client = task[t].client
                       /\ task'[t].attempt = task[t].attempt + 1
                    \/ task'[t].pc \in {"failed", "cancelled"}
              /\ (task[t].pc # "stream" /\ task'[t].pc = "stream") =>
                    /\ task[t].pc = "locate"
                    /\ k \in DOMAIN files'
                    /\ files'[k] = 0
              /\ (task[t].pc = "stream" /\ task'[t].pc = "committed") =>
                    /\ files[k] = 0
                    /\ files'[k] \in Delivered(FileSize(k))
                    /\ index'[k].file_size = files'[k]]_vars

\* the second attempt of a populator, on the session after the first one's,
\* has located the item again and opened the cache file, which is empty
C33_Witness ==
    \E t \in Tasks :
        /\ task[t].pc = "stream"
        /\ task[t].attempt = 1
        /\ task[t].key \in DOMAIN files
        /\ files[task[t].key] = 0

\* C34: after a pass of _ensure_space no evicted row has left its file
\* behind, whether or not the file was there before, and the files of the
\* other rows are as before; the rows the pass went through have stored
\* scores not above those of the rows it did not reach; and the pass stopped
\* as soon as the rest fitted: before the eviction of the evicted row with
\* the highest score the rest did not fit.
C34_MinimalLowestPrefix ==
    (evict.phase = "done") =>
        LET target_size == MaxSizeBytes - evict.needed_bytes
        IN  /\ \A e \in Evicted : e \notin DOMAIN files
            /\ \A k \in DOMAIN files : k \in DOMAIN evict.files /\ files[k] = evict.files[k]
            /\ \A k \in (DOMAIN evict.files) \ Evicted : k \in DOMAIN files
            /\ \A s \in Survivors : index[s] = evict.index[s]
            /\ \A s \in Survivors \ evict.failed, e \in Evicted \cup evict.failed :
                  evict.index[e].score <= evict.index[s].score
            /\ Evicted # {} =>
                  \E last \in Evicted :
                     /\ \A e \in Evicted : evict.index[e].score <= evict.index[last].score
                     /\ GetCacheSize(index) + evict.index[last].file_size > target_size

\* a pass has evicted two rows, one whose file was there and one whose file
\* was missing already, and has left a row with a higher score
C34_Witness ==
    /\ evict.phase = "done"
    /\ evict.failed = {}
    /\ \E e1, e2 \in Evicted, s \in Survivors :
          /\ e1 \in DOMAIN evict.files
          /\ e2 \notin DOMAIN evict.files
          /\ evict.index[s].score > evict.index[e1].score
          /\ evict.index[s].score > evict.index[e2].score

\* C35: a request that is answered 416 changes nothing in the cache: no
\* populator is admitted, the downloading set, the predictor tasks and
\* every row of the index are as before.
C35_RangeErrorChangesNothing ==
    [][(ServeStep /\ resp'.status = 416) =>
          UNCHANGED <<index, files, downloading, task, precache_tasks, trigger_tasks>>]_vars

\* C36: while the response of a cache hit is being sent, the file of its
\* entry is in the cache directory, and file_sender has found that file
\* when it opened the path.
C36_HitFileStaysWhileStreamed ==
    (handler.route = "cache" /\ handler.pc \in {"headers", "body"}) =>
        /\ handler.key \in DOMAIN files
        /\ handler.pc = "body" => handler.opened = "file"

\* C37: whenever no populator task is running, every file in the cache
\* directory is the file of a row of the index.
C37_NoFileWithoutRow ==
    (\A t \in Tasks : ~Live(t)) => \A k \in DOMAIN files : k \in DOMAIN index

\* C38: with the cache disabled the downloading set stays empty, no
\* populator task and no predictor task exists, and every 200 or 206
\* response is labelled MISS and read from the remote store.
C38_DisabledCacheIsInert ==
    /\ downloading = {}
    /\ \A t \in Tasks : task[t] = NoTask
    /\ precache_tasks = {}
    /\ trigger_tasks = {}
    /\ resp.status \in {200, 206} => (resp.path = "MISS" /\ resp.source = "remote")

\* with the cache disabled a request for an item whose row and file an
\* earlier run has left has been answered 206 from the remote store
C38_Witness ==
    /\ resp.status = 206
    /\ resp.path = "MISS"
    /\ req.key \in (DOMAIN index) \cap (DOMAIN files)
    /\ downloading = {}

\* C39: a trigger of the predictor starts a populator, or adds a key to the
\* downloading set, only when the locate returned and the first 6
\* characters of the located unique_id are the hash of the catalog row;
\* when the locate raised or the hash differs, the downloading set and the
\* tasks are as before.
C39_PredictedHashChecked ==
    [][\A k \in Requested :
          (k \in trigger_tasks /\ k \notin trigger_tasks') =>
             LET started == {t \in Tasks : ~Live(t) /\ Live(t)'}
                 matches == /\ call'.located
                            /\ SubSeq(UniqueId(k), 1, 6) = call'.secure_hash
             IN  /\ call'.fn = "_trigger_pre_download"
                 /\ call'.key = k
                 /\ (started # {} \/ downloading' # downloading) => matches
                 /\ ~matches => UNCHANGED <<downloading, task, files>>
                 /\ \A t \in started : task'[t].key = k]_vars

\* a trigger whose locate returned a content id other than the row's hash
\* has run for an item that is neither cached nor being downloaded and that
\* start_background_download would admit, a task slot being free, and no
\* populator of the item runs
C39_Witness ==
    /\ call.fn = "_trigger_pre_download"
    /\ call.located
    /\ call.secure_hash # SubSeq(UniqueId(call.key), 1, 6)
    /\ ~IsCached(index, files, call.key)
    /\ call.key \notin downloading
    /\ LiveFor(call.key) = {}
    /\ Admit(call.key, index, files, downloading)
    /\ FreeSlots # {}

\* the requesters that hold the lock of a key and are between
\* mark_processing(True) and the finally clause
Extracting(lock_key) ==
    {r \in Requesters : /\ handler[r].pc \in {"locate", "extract"}
                        /\ ProcessingKey(r) = lock_key}

\* C40: for one (chat, message, hash) at most one request is between
\* mark_processing(True) and its finally clause, and it holds the lock of
\* that key; the processing marks are those of the extractions under way,
\* so every exit (a response of any status, a cancellation) has cleared its
\* mark; and a request that waited for the lock and finds its subtitle
\* cached is answered 200 from the cache, while one that goes on to extract
\* did not find it.
C40_OneExtractionPerFile ==
    /\ [](\A k \in SubtitleItems : \A h \in Hashes(k) :
            LET lock_key == GenerateCacheKey(k, h, 0)
            IN  /\ Cardinality(Extracting(lock_key)) <= 1
                /\ \A r \in Extracting(lock_key) :
                      GetLock(lock.processing_locks, lock_key).holder = r
                /\ (lock_key \in lock.processing_tasks) <=> (Extracting(lock_key) # {}))
    /\ [][\A r \in Requesters :
            (handler[r].pc = "waiting" /\ handler'[r].pc \notin {"waiting", "cancelled"}) =>
               IF SubtitleKey(r) \in lock.subtitles
               THEN /\ handler'[r].pc = "done"
                    /\ handler'[r].status = 200
                    /\ handler'[r].source = "HIT"
                    /\ lock'.subtitles = lock.subtitles
                    /\ lock'.processing_tasks = lock.processing_tasks
               ELSE handler'[r].pc = "locate"]_vars

\* a requester that waited for the lock has been answered from the cache,
\* the requester whose extraction it waited for has been answered with the
\* extracted subtitle, and no processing mark is left
C40_Witness ==
    /\ \E r \in Requesters : /\ handler[r].pc = "done"
                             /\ handler[r].waited
                             /\ handler[r].source = "HIT"
    /\ \E r \in Requesters : /\ handler[r].pc = "done"
                             /\ handler[r].source = "MISS"
    /\ lock.processing_tasks = {}

====
